---- MODULE Spec2Model ----
(***************************************************************************)
(* A model of the amp-server proxy/transcoding engine                      *)
(* (src/api/src/proxy/service.rs, src/api/src/proxy/config.rs,             *)
(* src/api/src/lib.rs).                                                    *)
(*                                                                         *)
(* Text is a sequence of one-character strings; a byte string is the same  *)
(* thing, with the two bytes of one two-byte UTF-8 character written Lead  *)
(* and Cont.  Option<T> is a sequence of length 0 (None) or 1 (Some).      *)
(***************************************************************************)
EXTENDS Integers, Sequences, FiniteSets, TLC

VARIABLES
    body,       \* SSE: every byte the upstream body holds
    rest,       \* SSE: the bytes bytes_stream() has not yielded yet
    buffer,     \* SSE: `buffer` of handle_sse_response
    events,     \* SSE: the payloads yielded so far, in order
    ssePc,      \* SSE: "reading" | "closed"
    sseErr,     \* SSE: bytes_stream() yielded Err
    file,       \* startup: what proxy_config.yaml holds
    cfgPc,      \* startup: "boot" | "loaded" | "serving"
    loaded,     \* startup: the result of load_from_file, once it ran
    proxy_config,  \* startup: the configuration the proxy service holds
    router,     \* startup: the routes create_router registered
    reqPc,      \* request: where handle_proxy_request stands
    config,     \* request: the EndpointConfig of the route that matched
    req,        \* request: the headers and the body of the inbound request
    conv,       \* request: what the two request-side converters returned
    outbound,   \* request: the requests sent to the upstream, in order
    upstream,   \* request: status and headers of the upstream response
    resp,       \* request: `result`, the response being prepared
    result,     \* request: what handle_proxy_request returned
    acc,        \* request: the bytes axum::body::to_bytes has collected
    accChunks,  \* request: how many upstream chunks to_bytes has consumed (capped)
    delivered,  \* request: the body bytes handed to the caller so far
    steps,      \* request: the steps that ran, in order
    failedAt,   \* request: the step that returned Err, or "none"
    fnPc,       \* function call: "ready" | "done"
    fnIn,       \* function call: the function and its argument
    fnOut,      \* function call: what the function returned
    cells,      \* tasks: the EndpointConfig values in memory, by their owner
    tasks,      \* tasks: where each request task stands, and what it holds
    rbPc,       \* retry: where retry_with_backoff stands
    rbConfig,   \* retry: `config`, the RetryConfig of the call
    attempt,    \* retry: `attempt` of the for loop
    delay,      \* retry: `delay`, in milliseconds
    history,    \* retry: what operation() returned, call by call
    slept,      \* retry: the delays that were slept, in order
    rbResult    \* retry: what retry_with_backoff returned

sseVars == <<body, rest, buffer, events, ssePc, sseErr>>

cfgVars == <<file, cfgPc, loaded, proxy_config, router>>

reqVars == <<reqPc, config, req, conv, outbound, upstream, resp, result,
             acc, accChunks, delivered, steps, failedAt>>

fnVars == <<fnPc, fnIn, fnOut>>

conVars == <<cells, tasks>>

rbVars == <<rbPc, rbConfig, attempt, delay, history, slept, rbResult>>

vars == <<sseVars, cfgVars, reqVars, fnVars, conVars, rbVars>>

-----------------------------------------------------------------------------
(* Option<T> *)

None == <<>>

Some(v) == <<v>>

-----------------------------------------------------------------------------
(* The values of the variables a specification does not use. *)

SseIdle ==
    /\ body = <<>>
    /\ rest = <<>>
    /\ buffer = <<>>
    /\ events = <<>>
    /\ ssePc = "idle"
    /\ sseErr = FALSE

CfgIdle ==
    /\ file = [kind |-> "missing"]
    /\ cfgPc = "idle"
    /\ loaded = None
    /\ proxy_config = None
    /\ router = {}

FnIdle ==
    /\ fnPc = "idle"
    /\ fnIn = None
    /\ fnOut = None

ConIdle ==
    /\ cells = <<>>
    /\ tasks = <<>>

RbIdle ==
    /\ rbPc = "idle"
    /\ rbConfig = <<>>
    /\ attempt = 0
    /\ delay = 0
    /\ history = <<>>
    /\ slept = <<>>
    /\ rbResult = <<>>

\* A body of no bytes
NoBytes == [kind |-> "raw", text |-> <<>>]

ReqIdle ==
    /\ reqPc = "idle"
    /\ config = None
    /\ req = None
    /\ conv = None
    /\ outbound = <<>>
    /\ upstream = None
    /\ resp = None
    /\ result = None
    /\ acc = <<>>
    /\ accChunks = 0
    /\ delivered = NoBytes
    /\ steps = <<>>
    /\ failedAt = "none"

-----------------------------------------------------------------------------
(* Text helpers: the std operations the source calls. *)

LF == "\n"

CR == "\r"

SP == " "

\* The first byte of a two-byte UTF-8 character, its second byte, and the
\* replacement character U+FFFD that a lossy decode writes for a stray byte.
Lead == "<C3>"

Cont == "<A9>"

Replacement == "<FFFD>"

\* char::is_whitespace, on the characters of the model
WhiteSpace == {SP, CR, LF, "\t"}

RECURSIVE Concat(_)
Concat(ss) == IF ss = <<>> THEN <<>> ELSE Head(ss) \o Concat(Tail(ss))

RECURSIVE TrimStart(_)
TrimStart(s) ==
    IF s # <<>> /\ Head(s) \in WhiteSpace THEN TrimStart(Tail(s)) ELSE s

RECURSIVE TrimEnd(_)
TrimEnd(s) ==
    IF s # <<>> /\ s[Len(s)] \in WhiteSpace
    THEN TrimEnd(SubSeq(s, 1, Len(s) - 1))
    ELSE s

\* A trim that leaves the white space at the end
TrimLeadingOnly(s) == TrimStart(s)

\* str::trim
Trim(s) == TrimEnd(TrimStart(s))

\* str::starts_with
StartsWith(s, p) == Len(s) >= Len(p) /\ SubSeq(s, 1, Len(p)) = p

\* str::strip_prefix: None when s does not start with p
StripPrefix(s, p) ==
    IF StartsWith(s, p) THEN Some(SubSeq(s, Len(p) + 1, Len(s))) ELSE None

\* String::from_utf8_lossy: a Lead followed by a Cont is one character and is
\* kept; a Lead with no Cont after it, and a Cont with no Lead before it, are
\* each replaced by U+FFFD.
RECURSIVE Utf8Lossy(_)
Utf8Lossy(bs) ==
    IF bs = <<>> THEN <<>>
    ELSE IF Head(bs) = Lead
         THEN IF Len(bs) >= 2 /\ bs[2] = Cont
              THEN <<Lead, Cont>> \o Utf8Lossy(SubSeq(bs, 3, Len(bs)))
              ELSE <<Replacement>> \o Utf8Lossy(Tail(bs))
         ELSE IF Head(bs) = Cont
              THEN <<Replacement>> \o Utf8Lossy(Tail(bs))
              ELSE <<Head(bs)>> \o Utf8Lossy(Tail(bs))

\* The index of the first LF of s, 0 when it has none
RECURSIVE FirstLF(_, _)
FirstLF(s, i) ==
    IF i > Len(s) THEN 0 ELSE IF s[i] = LF THEN i ELSE FirstLF(s, i + 1)

\* str::split_inclusive('\n')
RECURSIVE SplitInclusive(_)
SplitInclusive(s) ==
    IF s = <<>> THEN <<>>
    ELSE LET i == FirstLF(s, 1)
         IN  IF i = 0 THEN <<s>>
             ELSE <<SubSeq(s, 1, i)>> \o SplitInclusive(SubSeq(s, i + 1, Len(s)))

\* What str::lines does to one piece: a final "\n" is removed, and then a
\* final "\r"; a piece with no "\n" (the last one) is left as it is.
LinesMap(line) ==
    IF line # <<>> /\ line[Len(line)] = LF
    THEN LET l1 == SubSeq(line, 1, Len(line) - 1)
         IN  IF l1 # <<>> /\ l1[Len(l1)] = CR
             THEN SubSeq(l1, 1, Len(l1) - 1)
             ELSE l1
    ELSE line

\* str::lines
Lines(s) ==
    LET pieces == SplitInclusive(s)
    IN  [i \in 1..Len(pieces) |-> LinesMap(pieces[i])]

-----------------------------------------------------------------------------
(* The SSE framer: parse_sse_line and the stream! block of                 *)
(* handle_sse_response.                                                    *)

DataSpacePrefix == <<"d", "a", "t", "a", ":", SP>>

DataPrefix == <<"d", "a", "t", "a", ":">>

DoneSentinel == <<"[DONE]">>

parse_sse_line(line0) ==
    LET line == Trim(line0)
    IN  IF line = <<>> THEN None
        ELSE IF StripPrefix(line, DataSpacePrefix) # None
             THEN LET data_content == StripPrefix(line, DataSpacePrefix)[1]
                  IN  IF data_content = DoneSentinel
                      THEN Some(DoneSentinel)
                      ELSE Some(data_content)
             ELSE IF StripPrefix(line, DataPrefix) # None
                  THEN Some(StripPrefix(line, DataPrefix)[1])
                  ELSE Some(line)

\* The payloads of the lines that parse_sse_line keeps, in order
RECURSIVE ParseLines(_)
ParseLines(ls) ==
    IF ls = <<>> THEN <<>>
    ELSE parse_sse_line(Head(ls)) \o ParseLines(Tail(ls))

\* One Ok(bytes) turn of the while loop: what it yields and the buffer it
\* leaves.
FeedChunk(buf, bytes) ==
    LET buffer1 == buf \o bytes
        text == Utf8Lossy(buffer1)
        lines_vec == Lines(text)
    IN  IF Len(lines_vec) > 1
        THEN [yielded |-> ParseLines(SubSeq(lines_vec, 1, Len(lines_vec) - 1)),
              buffer |-> lines_vec[Len(lines_vec)]]
        ELSE [yielded |-> <<>>, buffer |-> buffer1]

\* A flush that goes over the lines of the buffer a second time
FlushBufferTwice(buf) ==
    ParseLines(Lines(Utf8Lossy(buf))) \o ParseLines(Lines(Utf8Lossy(buf)))

\* The code after the while loop
FlushBuffer(buf) ==
    IF buf # <<>> THEN ParseLines(Lines(Utf8Lossy(buf))) ELSE <<>>

\* The payloads the framer yields when the whole input is one chunk
OneChunkOutput(bytes) ==
    IF bytes = <<>> THEN FlushBuffer(<<>>)
    ELSE LET r == FeedChunk(<<>>, bytes)
         IN  r.yielded \o FlushBuffer(r.buffer)

-----------------------------------------------------------------------------
(* The framer as a state machine: the upstream hands over its bytes in     *)
(* chunks of any length.                                                   *)

\* The pieces upstream bodies are made of, and how many of them one has
MaxPieces == 4

SsePieces ==
    { DataSpacePrefix, DataPrefix, <<"x">>, DoneSentinel, <<LF>>, <<CR, LF>>,
      <<Lead, Cont>> }

RECURSIVE Bodies(_)
Bodies(n) ==
    IF n = 0 THEN {<<>>}
    ELSE Bodies(n - 1) \cup {b \o p : b \in Bodies(n - 1), p \in SsePieces}

SseInit ==
    /\ body \in Bodies(MaxPieces)
    /\ rest = body
    /\ buffer = <<>>
    /\ events = <<>>
    /\ ssePc = "reading"
    /\ sseErr = FALSE
    /\ CfgIdle
    /\ ReqIdle
    /\ FnIdle
    /\ ConIdle
    /\ RbIdle

\* bytes_stream() yields Some(Ok(bytes)): a non-empty chunk of any length
SseChunk ==
    /\ ssePc = "reading"
    /\ rest # <<>>
    /\ \E n \in 1..Len(rest) :
          LET r == FeedChunk(buffer, SubSeq(rest, 1, n))
          IN  /\ rest' = SubSeq(rest, n + 1, Len(rest))
              /\ buffer' = r.buffer
              /\ events' = events \o r.yielded
    /\ UNCHANGED <<body, ssePc, sseErr>>
    /\ UNCHANGED <<cfgVars, reqVars, fnVars, conVars, rbVars>>

\* bytes_stream() yields Some(Err(e)): break, then the flush
SseReadError ==
    /\ ssePc = "reading"
    /\ events' = events \o FlushBuffer(buffer)
    /\ ssePc' = "closed"
    /\ sseErr' = TRUE
    /\ UNCHANGED <<body, rest, buffer>>
    /\ UNCHANGED <<cfgVars, reqVars, fnVars, conVars, rbVars>>

\* bytes_stream() yields None: the loop ends, then the flush
SseEnd ==
    /\ ssePc = "reading"
    /\ rest = <<>>
    /\ events' = events \o FlushBuffer(buffer)
    /\ ssePc' = "closed"
    /\ UNCHANGED <<body, rest, buffer, sseErr>>
    /\ UNCHANGED <<cfgVars, reqVars, fnVars, conVars, rbVars>>

SseNext == SseChunk \/ SseReadError \/ SseEnd

SpecSse == SseInit /\ [][SseNext]_vars

-----------------------------------------------------------------------------
(* Configuration: src/api/src/proxy/config.rs.                             *)
(* A path, a URL, a method and a header name are texts written as          *)
(* sequences of words and separators, so that the source's is_empty,       *)
(* starts_with, contains and replace are computed on them.                 *)

Ok == [ok |-> TRUE]

Err(msg) == [ok |-> FALSE, err |-> msg]

\* An f64: NaN, or a number written in tenths
F64(tenths) == [nan |-> FALSE, v |-> tenths]

NaN == [nan |-> TRUE, v |-> 0]

\* f64 `<` and `>`: false whenever an operand is NaN
FLt(a, b) == ~a.nan /\ ~b.nan /\ a.v < b.v

FGt(a, b) == ~a.nan /\ ~b.nan /\ a.v > b.v

\* char::to_uppercase / to_lowercase on the words of the model
UpperWord(w) ==
    CASE w = "get" -> "GET"
      [] w = "post" -> "POST"
      [] w = "put" -> "PUT"
      [] w = "delete" -> "DELETE"
      [] w = "patch" -> "PATCH"
      [] w = "head" -> "HEAD"
      [] w = "options" -> "OPTIONS"
      [] w = "trace" -> "TRACE"
      [] OTHER -> w

LowerWord(w) ==
    CASE w = "Authorization" -> "authorization"
      [] w = "X-Api-Key" -> "x-api-key"
      [] w = "Connection" -> "connection"
      [] w = "Transfer-Encoding" -> "transfer-encoding"
      [] w = "Content-Type" -> "content-type"
      [] w = "HTTP" -> "http"
      [] w = "HTTPS" -> "https"
      [] w = "System" -> "system"
      [] w = "SYSTEM" -> "system"
      [] OTHER -> w

\* str::to_ascii_lowercase
ToLowercase(s) == [i \in 1..Len(s) |-> LowerWord(s[i])]

\* str::eq_ignore_ascii_case
EqIgnoreAsciiCase(a, b) == ToLowercase(a) = ToLowercase(b)

\* str::to_uppercase
ToUppercase(s) == [i \in 1..Len(s) |-> UpperWord(s[i])]

\* url::Url::parse, on the URLs of the model: <<scheme, "://", host, ...>>
\* parses, with its scheme in lower case; anything else is an error.
UrlParse(u) ==
    IF Len(u) >= 3 /\ u[2] = "://"
    THEN Some([scheme |-> LowerWord(u[1])])
    ELSE None

RetrySettingsDefault ==
    [max_attempts |-> 3, base_delay_ms |-> 100, max_delay_ms |-> 10000,
     backoff_multiplier |-> F64(20)]

\* RetrySettings::validate
RetrySettings_validate(self) ==
    IF self.max_attempts = 0 \/ self.max_attempts > 10
    THEN Err("Max retry attempts must be between 1 and 10")
    ELSE IF self.base_delay_ms = 0 \/ self.base_delay_ms > 60000
    THEN Err("Base delay must be between 1 and 60000 ms")
    ELSE IF self.max_delay_ms < self.base_delay_ms \/ self.max_delay_ms > 600000
    THEN Err("Max delay must be between base_delay_ms and 600000 ms")
    ELSE IF FLt(self.backoff_multiplier, F64(10))
            \/ FGt(self.backoff_multiplier, F64(100))
    THEN Err("Backoff multiplier must be between 1.0 and 10.0")
    ELSE Ok

valid_methods ==
    { <<"GET">>, <<"POST">>, <<"PUT">>, <<"DELETE">>, <<"PATCH">>, <<"HEAD">>,
      <<"OPTIONS">> }

\* A header list has a name that is empty once trimmed
HasBlankName(names) == \E i \in 1..Len(names) : Trim(names[i]) = <<>>

\* EndpointConfig::validate
EndpointConfig_validate(self) ==
    IF self.path = <<>>
    THEN Err("Endpoint path cannot be empty")
    ELSE IF ~StartsWith(self.path, <<"/">>)
    THEN Err("Endpoint path must start with '/'")
    ELSE IF self.target_url = <<>>
    THEN Err("Target URL cannot be empty")
    ELSE IF UrlParse(self.target_url) = None
    THEN Err("Invalid target URL")
    ELSE IF UrlParse(self.target_url)[1].scheme \notin {"http", "https"}
    THEN Err("Invalid URL scheme")
    ELSE IF ToUppercase(self.method) \notin valid_methods
    THEN Err("Invalid HTTP method")
    ELSE IF self.timeout # None
            /\ (self.timeout[1] = 0 \/ self.timeout[1] > 3600)
    THEN Err("Endpoint timeout must be between 1 and 3600 seconds")
    ELSE IF self.retry # None /\ ~RetrySettings_validate(self.retry[1]).ok
    THEN RetrySettings_validate(self.retry[1])
    ELSE IF \E h \in self.custom_headers : Trim(h[1]) = <<>>
    THEN Err("Custom header name cannot be empty")
    ELSE IF HasBlankName(self.forward_request_headers)
    THEN Err("Forward request header name cannot be empty")
    ELSE IF HasBlankName(self.forward_response_headers)
    THEN Err("Forward response header name cannot be empty")
    ELSE Ok

\* Duration::from_secs and Duration::from_millis: a Duration is a number
\* of milliseconds
DurationFromSecs(secs) == secs * 1000

DurationFromMillis(millis) == millis

\* Option::unwrap_or
UnwrapOr(opt, default) == IF opt = None THEN default ELSE opt[1]

\* Option::or
OptionOr(a, b) == IF a # None THEN a ELSE b

\* A get_timeout that asks the global timeout first
get_timeout_global_first(self, global_timeout) ==
    DurationFromSecs(UnwrapOr(OptionOr(global_timeout, self.timeout), 30))

\* EndpointConfig::get_timeout
get_timeout(self, global_timeout) ==
    DurationFromSecs(UnwrapOr(OptionOr(self.timeout, global_timeout), 30))

\* RetryConfig::default
RetryConfigDefault ==
    [max_attempts |-> 3, base_delay |-> DurationFromMillis(100),
     max_delay |-> DurationFromSecs(10), backoff_multiplier |-> F64(20)]

\* From<&RetrySettings> for RetryConfig
RetryConfigFrom(settings) ==
    [max_attempts |-> settings.max_attempts,
     base_delay |-> DurationFromMillis(settings.base_delay_ms),
     max_delay |-> DurationFromMillis(settings.max_delay_ms),
     backoff_multiplier |-> settings.backoff_multiplier]

\* EndpointConfig::get_retry_config
get_retry_config(self, global_retry) ==
    IF self.retry # None THEN RetryConfigFrom(self.retry[1])
    ELSE IF global_retry # None THEN RetryConfigFrom(global_retry[1])
    ELSE RetryConfigDefault

\* The for loop of ProxyConfig::validate: each endpoint is validated, then
\* its path is looked up among the paths seen so far.
RECURSIVE ValidateEndpoints(_, _)
ValidateEndpoints(endpoints, seen_paths) ==
    IF endpoints = <<>> THEN Ok
    ELSE LET endpoint == Head(endpoints)
         IN  IF ~EndpointConfig_validate(endpoint).ok
             THEN EndpointConfig_validate(endpoint)
             ELSE IF endpoint.path \in seen_paths
             THEN Err("Duplicate endpoint path")
             ELSE ValidateEndpoints(Tail(endpoints),
                                    seen_paths \cup {endpoint.path})

\* ProxyConfig::validate
ProxyConfig_validate(self) ==
    IF self.endpoints = <<>>
    THEN Err("No endpoints configured")
    ELSE IF ~ValidateEndpoints(self.endpoints, {}).ok
    THEN ValidateEndpoints(self.endpoints, {})
    ELSE IF self.global_timeout # None
            /\ (self.global_timeout[1] = 0 \/ self.global_timeout[1] > 3600)
    THEN Err("Global timeout must be between 1 and 3600 seconds")
    ELSE IF self.global_retry # None
            /\ ~RetrySettings_validate(self.global_retry[1]).ok
    THEN RetrySettings_validate(self.global_retry[1])
    ELSE Ok

\* ProxyConfig::enabled_endpoints
enabled_endpoints(self) == SelectSeq(self.endpoints, LAMBDA e : e.enabled)

\* ProxyConfig::load_from_file: the file is missing, or is not the YAML of a
\* ProxyConfig, or holds a configuration, which is then validated.
load_from_file(content) ==
    IF content.kind = "missing" THEN Err("No such file or directory")
    ELSE IF content.kind = "unparsable" THEN Err("yaml error")
    ELSE IF ~ProxyConfig_validate(content.config).ok
    THEN ProxyConfig_validate(content.config)
    ELSE [ok |-> TRUE, config |-> content.config]

\* One entry of the endpoints of ProxyConfig::default(): no custom headers,
\* enabled, no timeout and no retry of its own
DefaultEndpoint(path, target_url, method, response_type, fwd_req, fwd_resp) ==
    [path |-> path, target_url |-> target_url, method |-> method,
     response_type |-> response_type, custom_headers |-> {},
     forward_request_headers |-> fwd_req,
     forward_response_headers |-> fwd_resp,
     enabled |-> TRUE, timeout |-> None, retry |-> None]

ApiProvider(name) == <<"/", "api", "/", "provider", "/", name, "/">>

ApiKeyInfo == <<"https", "://", "api-key.info", "/">>

GoogleModels == <<"v1beta", "/", "models">>

H(name) == <<name>>

CommonRequestHeaders ==
    <<H("authorization"), H("content-type"), H("user-agent"), H("accept"),
      H("accept-encoding")>>

GetRequestHeaders ==
    <<H("authorization"), H("user-agent"), H("accept"), H("accept-encoding")>>

CommonResponseHeaders == <<H("content-type"), H("cache-control")>>

LlmProxyResponseHeaders ==
    <<H("alt-svc"), H("content-security-policy"), H("fireworks-backend-host"),
      H("fireworks-cached-prompt-tokens"), H("fireworks-deployment"),
      H("fireworks-generation-queue-duration"),
      H("fireworks-num-concurrent-requests"), H("fireworks-prefill-duration"),
      H("fireworks-prefill-queue-duration"), H("fireworks-prompt-tokens"),
      H("fireworks-sampling-options"),
      H("fireworks-server-time-to-first-token"),
      H("fireworks-speculation-matched-tokens"),
      H("fireworks-speculation-prompt-tokens"),
      H("fireworks-tokenizer-duration"),
      H("fireworks-tokenizer-queue-duration")>>

\* ProxyConfig::default()
ProxyConfigDefault ==
    [global_timeout |-> Some(30),
     global_retry |-> Some(RetrySettingsDefault),
     endpoints |-> <<
        DefaultEndpoint(ApiProvider("openai") \o <<"v1", "/", "chat", "/", "completions">>,
                        ApiKeyInfo \o <<"v1", "/", "chat", "/", "completions">>,
                        <<"POST">>, "Stream", CommonRequestHeaders,
                        CommonResponseHeaders),
        DefaultEndpoint(ApiProvider("openai") \o <<"v1", "/", "responses">>,
                        ApiKeyInfo \o <<"v1", "/", "responses">>,
                        <<"POST">>, "Stream",
                        CommonRequestHeaders \o <<H("openai-beta")>>,
                        CommonResponseHeaders),
        DefaultEndpoint(ApiProvider("anthropic") \o <<"v1", "/", "messages">>,
                        ApiKeyInfo \o <<"v1", "/", "messages">>,
                        <<"POST">>, "Stream",
                        CommonRequestHeaders \o <<H("anthropic-version")>>,
                        CommonResponseHeaders),
        DefaultEndpoint(<<"/", "api", "/", "tab", "/", "llm-proxy">>,
                        <<"https", "://", "ampcode.com", "/", "api", "/", "tab", "/", "llm-proxy">>,
                        <<"POST">>, "Sse",
                        <<H("authorization"), H("user-agent"), H("x-amp-feature"),
                          H("accept-language"), H("sec-fetch-mode")>>,
                        LlmProxyResponseHeaders),
        DefaultEndpoint(ApiProvider("google") \o GoogleModels \o <<"/", "gemini-pro", ":", "streamGenerateContent">>,
                        ApiKeyInfo \o GoogleModels \o <<"/", "gemini-pro", ":", "streamGenerateContent">>,
                        <<"POST">>, "Sse", CommonRequestHeaders,
                        CommonResponseHeaders),
        DefaultEndpoint(ApiProvider("google") \o GoogleModels \o <<"/", "gemini-pro", ":", "generateContent">>,
                        ApiKeyInfo \o GoogleModels \o <<"/", "gemini-pro", ":", "generateContent">>,
                        <<"POST">>, "Json", CommonRequestHeaders,
                        CommonResponseHeaders),
        DefaultEndpoint(ApiProvider("google") \o GoogleModels,
                        ApiKeyInfo \o GoogleModels,
                        <<"GET">>, "Json", GetRequestHeaders,
                        CommonResponseHeaders),
        DefaultEndpoint(ApiProvider("google") \o GoogleModels \o <<"/", "embedding-001", ":", "embedContent">>,
                        ApiKeyInfo \o GoogleModels \o <<"/", "embedding-001", ":", "embedContent">>,
                        <<"POST">>, "Json", CommonRequestHeaders,
                        CommonResponseHeaders),
        DefaultEndpoint(ApiProvider("google") \o GoogleModels \o <<"/", "gemini-2.5-flash-preview-05-20", ":", "streamGenerateContent">>,
                        ApiKeyInfo \o GoogleModels \o <<"/", "gemini-2.5-flash-preview-05-20", ":", "streamGenerateContent">>,
                        <<"POST">>, "Sse", CommonRequestHeaders,
                        CommonResponseHeaders),
        DefaultEndpoint(ApiProvider("google") \o GoogleModels \o <<"/", "gemini-2.5-flash-preview-05-20", ":", "generateContent">>,
                        ApiKeyInfo \o GoogleModels \o <<"/", "gemini-2.5-flash-preview-05-20", ":", "generateContent">>,
                        <<"POST">>, "Json", CommonRequestHeaders,
                        CommonResponseHeaders),
        DefaultEndpoint(ApiProvider("openai") \o <<"v1", "/", "models">>,
                        ApiKeyInfo \o <<"v1", "/", "models">>,
                        <<"GET">>, "Json",
                        GetRequestHeaders \o <<H("openai-beta")>>,
                        CommonResponseHeaders),
        DefaultEndpoint(ApiProvider("openai") \o <<"v1", "/", "embeddings">>,
                        ApiKeyInfo \o <<"v1", "/", "embeddings">>,
                        <<"POST">>, "Json",
                        CommonRequestHeaders \o <<H("openai-beta")>>,
                        CommonResponseHeaders),
        DefaultEndpoint(ApiProvider("cerebras") \o <<"v1", "/", "chat", "/", "completions">>,
                        ApiKeyInfo \o <<"v1", "/", "chat", "/", "completions">>,
                        <<"POST">>, "Stream", CommonRequestHeaders,
                        CommonResponseHeaders) >>]

\* ProxyService::create_router: the routes it registers, each a path with
\* the axum method filter (get, post, put, delete) it is mounted under.
RECURSIVE RegisterRoutes(_, _)
RegisterRoutes(endpoints, router0) ==
    IF endpoints = <<>> THEN router0
    ELSE LET endpoint == Head(endpoints)
             m == ToUppercase(endpoint.method)
             router1 ==
                 IF m = <<"GET">> THEN router0 \cup {<<endpoint.path, "GET">>}
                 ELSE IF m = <<"POST">> THEN router0 \cup {<<endpoint.path, "POST">>}
                 ELSE IF m = <<"PUT">> THEN router0 \cup {<<endpoint.path, "PUT">>}
                 ELSE IF m = <<"DELETE">> THEN router0 \cup {<<endpoint.path, "DELETE">>}
                 ELSE router0
         IN  RegisterRoutes(Tail(endpoints), router1)

create_router(config0) == RegisterRoutes(enabled_endpoints(config0), {})

HttpMethods == {"GET", "POST", "PUT", "DELETE", "PATCH", "HEAD", "OPTIONS"}

\* Whether the router holds a route for `path` mounted under `method`
Serves(routes, path, method) == <<path, method>> \in routes

-----------------------------------------------------------------------------
(* Startup (start, src/api/src/lib.rs): the configuration file is loaded,  *)
(* the proxy service is built from the result and its router is mounted.   *)

\* How many endpoints a configuration file lists
MaxEndpoints == 2

CfgPaths == { <<>>, <<"api">>, <<"/", "a">>, <<"/", "b">> }

CfgUrls ==
    { <<>>, <<"not a url">>, <<"ftp", "://", "h">>, <<"HTTPS", "://", "h">> }

CfgMethods ==
    { <<"GET">>, <<"post">>, <<"PUT">>, <<"delete">>, <<"PATCH">>, <<"head">>,
      <<"OPTIONS">>, <<"TRACE">> }

CfgTimeouts == { None, Some(0), Some(3600), Some(3601) }

Retry(a, b, m, f) ==
    [max_attempts |-> a, base_delay_ms |-> b, max_delay_ms |-> m,
     backoff_multiplier |-> f]

CfgRetries ==
    { None, Some(RetrySettingsDefault),
      Some(Retry(0, 100, 10000, F64(20))), Some(Retry(11, 100, 10000, F64(20))),
      Some(Retry(10, 0, 10000, F64(20))), Some(Retry(1, 60001, 60001, F64(20))),
      Some(Retry(3, 100, 99, F64(20))), Some(Retry(3, 100, 600001, F64(20))),
      Some(Retry(3, 60000, 600000, F64(10))), Some(Retry(3, 100, 100, F64(100))),
      Some(Retry(3, 100, 10000, F64(9))), Some(Retry(3, 100, 10000, F64(101))),
      Some(Retry(3, 100, 10000, NaN)) }

CfgCustomHeaders == { {}, {<<H("x-api-key"), <<"k">>>>}, {<<<<SP>>, <<"k">>>>} }

CfgHeaderLists == { <<>>, <<H("authorization")>>, <<H("accept"), <<>>>> }

ValidEndpoint ==
    [path |-> <<"/", "a">>, target_url |-> <<"https", "://", "h">>,
     method |-> <<"POST">>, response_type |-> "Json", custom_headers |-> {},
     forward_request_headers |-> <<>>, forward_response_headers |-> <<>>,
     enabled |-> TRUE, timeout |-> None, retry |-> None]

\* The first endpoint of a file: every path, URL, method and enabled flag
\* with the rest valid, and every timeout, retry policy and header list on
\* an otherwise valid endpoint
FirstEndpoints ==
    { [ValidEndpoint EXCEPT !.path = p, !.target_url = u, !.method = m,
                            !.enabled = e] :
        p \in CfgPaths, u \in CfgUrls \cup {ValidEndpoint.target_url},
        m \in CfgMethods, e \in BOOLEAN }
    \cup
    { [ValidEndpoint EXCEPT !.timeout = t, !.retry = r] :
        t \in CfgTimeouts, r \in CfgRetries }
    \cup
    { [ValidEndpoint EXCEPT !.custom_headers = c,
                            !.forward_request_headers = q,
                            !.forward_response_headers = a] :
        c \in CfgCustomHeaders, q \in CfgHeaderLists, a \in CfgHeaderLists }

\* The endpoints that follow it: the same path again, another path under a
\* method the router does not mount, and a disabled one
MoreEndpoints ==
    { [ValidEndpoint EXCEPT !.method = <<"GET">>],
      [ValidEndpoint EXCEPT !.path = <<"/", "b">>, !.method = <<"patch">>],
      [ValidEndpoint EXCEPT !.path = <<"/", "c">>, !.enabled = FALSE] }

RECURSIVE EndpointLists(_)
EndpointLists(n) ==
    IF n = 0 THEN {<<>>}
    ELSE IF n = 1 THEN {<<>>} \cup {<<e>> : e \in FirstEndpoints}
    ELSE EndpointLists(n - 1)
         \cup {l \o <<e>> : l \in EndpointLists(n - 1) \ {<<>>},
                            e \in MoreEndpoints}

CfgGlobals ==
    { [global_timeout |-> t, global_retry |-> r] :
        t \in {None, Some(0)},
        r \in {None, Some(RetrySettingsDefault), Some(Retry(3, 100, 10000, NaN))} }

ConfigFiles ==
    { [kind |-> "missing"], [kind |-> "unparsable"] }
    \cup
    { [kind |-> "config",
       config |-> [endpoints |-> l, global_timeout |-> g.global_timeout,
                   global_retry |-> g.global_retry]] :
        l \in EndpointLists(MaxEndpoints), g \in CfgGlobals }

CfgInit ==
    /\ file \in ConfigFiles
    /\ cfgPc = "boot"
    /\ loaded = None
    /\ proxy_config = None
    /\ router = {}
    /\ SseIdle
    /\ ReqIdle
    /\ FnIdle
    /\ ConIdle
    /\ RbIdle

\* ProxyConfig::load_from_file("proxy_config.yaml")
LoadConfig ==
    /\ cfgPc = "boot"
    /\ loaded' = Some(load_from_file(file))
    /\ cfgPc' = "loaded"
    /\ UNCHANGED <<file, proxy_config, router>>
    /\ UNCHANGED <<sseVars, reqVars, fnVars, conVars, rbVars>>

\* .unwrap_or_else(|e| ProxyConfig::default()), ProxyService::new and
\* the merge of create_router(): the service starts serving
StartProxy ==
    /\ cfgPc = "loaded"
    /\ LET config0 == IF loaded[1].ok THEN loaded[1].config
                      ELSE ProxyConfigDefault
       IN  /\ proxy_config' = Some(config0)
           /\ router' = create_router(config0)
    /\ cfgPc' = "serving"
    /\ UNCHANGED <<file, loaded>>
    /\ UNCHANGED <<sseVars, reqVars, fnVars, conVars, rbVars>>

CfgNext == LoadConfig \/ StartProxy

SpecCfg == CfgInit /\ [][CfgNext]_vars

-----------------------------------------------------------------------------
(* JSON (serde_json::Value) and bodies.                                    *)
(* A Value is tagged with its kind; a string holds a text; an object is a  *)
(* function from its keys.                                                 *)

JNull == [t |-> "null"]

JBool(b) == [t |-> "bool", b |-> b]

JNum(n) == [t |-> "num", n |-> n]

JStr(s) == [t |-> "str", s |-> s]

JArr(a) == [t |-> "arr", a |-> a]

JObj(o) == [t |-> "obj", o |-> o]

\* Value::get(key): None unless the value is an object that has the key
JGet(v, key) ==
    IF v.t = "obj" /\ key \in DOMAIN v.o THEN Some(v.o[key]) ELSE None

\* Value::as_str
AsStr(v) == IF v.t = "str" THEN Some(v.s) ELSE None

\* Value::as_bool
AsBool(v) == IF v.t = "bool" THEN Some(v.b) ELSE None

\* Value::as_array
AsArray(v) == IF v.t = "arr" THEN Some(v.a) ELSE None

\* v.get(key).and_then(|x| x.as_str())
GetStr(v, key) == IF JGet(v, key) = None THEN None ELSE AsStr(JGet(v, key)[1])

\* v.get(key).and_then(|x| x.as_bool())
GetBool(v, key) == IF JGet(v, key) = None THEN None ELSE AsBool(JGet(v, key)[1])

\* v.get(key).and_then(|x| x.as_array())
GetArray(v, key) ==
    IF JGet(v, key) = None THEN None ELSE AsArray(JGet(v, key)[1])

\* Texts used in the JSON documents below
T_user == <<"user">>

T_hi == <<"Hi">>

\* The JSON documents that travel as one token of a text.  A token stands
\* for the compact serialisation of its value (what serde_json::to_vec
\* writes); white space around it is layout, which parsing forgets.
JsonDocs ==
    [tok \in {"{o3-stream}", "{o3}", "{gpt-stream}", "{gemini-stream}",
              "{gemini}", "{no-model}", "{chat-first}", "{chat-delta}",
              "{chat-stop}", "{chat-completion}", "{gem-text}",
              "{gem-stop}", "{other}", "{chat-delta-stop}", "{chat-null}",
              "{gem-stop-usage}", "{gem-null}", "{gem-empty}",
              "{gem-usage}", "{o3-number}"} |->
        CASE tok = "{o3-stream}" ->
                JObj([model |-> JStr(<<"o3", "-mini">>),
                      stream |-> JBool(TRUE),
                      max_completion_tokens |-> JNum(64),
                      input |-> JArr(<<JObj([role |-> JStr(T_user),
                                             content |-> JStr(T_hi)])>>)])
          [] tok = "{o3}" ->
                JObj([model |-> JStr(<<"o3">>),
                      input |-> JArr(<<JObj([role |-> JStr(T_user),
                                             content |-> JStr(T_hi)]),
                                       JObj([content |-> JStr(T_hi)])>>)])
          [] tok = "{gpt-stream}" ->
                JObj([model |-> JStr(<<"gpt-4o">>), stream |-> JBool(TRUE)])
          [] tok = "{gemini-stream}" ->
                JObj([model |-> JStr(<<"gemini-pro">>),
                      stream |-> JBool(TRUE),
                      temperature |-> JNum(1),
                      input |-> JArr(<<
                          JObj([role |-> JStr(<<"System">>),
                                content |-> JStr(<<"be", SP, "brief">>)]),
                          JObj([role |-> JStr(<<"assistant">>),
                                content |-> JArr(<<JObj([text |-> JStr(T_hi)])>>)]),
                          JObj([role |-> JStr(T_user),
                                content |-> JNum(5)])>>)])
          [] tok = "{gemini}" ->
                JObj([model |-> JStr(<<"gemini-pro">>),
                      input |-> JArr(<<JObj([role |-> JStr(T_user),
                                             content |-> JStr(T_hi)])>>)])
          [] tok = "{no-model}" -> JObj([stream |-> JBool(TRUE)])
          [] tok = "{chat-first}" ->
                JObj([id |-> JStr(<<"c1">>),
                      choices |-> JArr(<<JObj([
                          delta |-> JObj([role |-> JStr(<<"assistant">>)]),
                          finish_reason |-> JNull])>>)])
          [] tok = "{chat-delta}" ->
                JObj([id |-> JStr(<<"c1">>),
                      choices |-> JArr(<<JObj([
                          delta |-> JObj([content |-> JStr(T_hi)]),
                          finish_reason |-> JNull])>>)])
          [] tok = "{chat-stop}" ->
                JObj([id |-> JStr(<<"c1">>),
                      choices |-> JArr(<<JObj([
                          delta |-> JObj([role |-> JStr(<<"assistant">>)]),
                          finish_reason |-> JStr(<<"stop">>)])>>)])
          [] tok = "{chat-completion}" ->
                JObj([id |-> JStr(<<"c1">>),
                      choices |-> JArr(<<JObj([
                          message |-> JObj([content |-> JStr(T_hi)])])>>)])
          [] tok = "{gem-text}" ->
                JObj([candidates |-> JArr(<<JObj([
                          content |-> JObj([parts |->
                              JArr(<<JObj([text |-> JStr(T_hi)])>>)])])>>)])
          [] tok = "{gem-stop}" ->
                JObj([candidates |-> JArr(<<JObj([
                          content |-> JObj([parts |->
                              JArr(<<JObj([text |-> JStr(T_hi)])>>)]),
                          finishReason |-> JStr(<<"STOP">>)])>>)])
          [] tok = "{chat-delta-stop}" ->
                JObj([id |-> JStr(<<"c1">>),
                      usage |-> JObj([total_tokens |-> JNum(7)]),
                      choices |-> JArr(<<JObj([
                          delta |-> JObj([content |-> JStr(<<"bye">>)]),
                          finish_reason |-> JStr(<<"stop">>)])>>)])
          [] tok = "{chat-null}" ->
                JObj([id |-> JStr(<<"c1">>),
                      choices |-> JArr(<<JObj([
                          delta |-> JObj([content |-> JNull]),
                          finish_reason |-> JStr(<<"stop">>)])>>)])
          [] tok = "{gem-stop-usage}" ->
                JObj([candidates |-> JArr(<<JObj([
                          content |-> JObj([parts |->
                              JArr(<<JObj([text |-> JStr(<<"bye">>)])>>)]),
                          finishReason |-> JStr(<<"STOP">>)])>>),
                      usageMetadata |-> JObj([totalTokenCount |-> JNum(7)])])
          [] tok = "{gem-null}" ->
                JObj([candidates |-> JArr(<<JObj([
                          content |-> JObj([parts |->
                              JArr(<<JObj([text |-> JStr(T_hi)])>>)]),
                          finishReason |-> JNull])>>),
                      usageMetadata |-> JObj([totalTokenCount |-> JNum(3)])])
          [] tok = "{gem-empty}" -> JObj([candidates |-> JArr(<<>>)])
          [] tok = "{gem-usage}" ->
                JObj([candidates |-> JArr(<<JObj([
                          finishReason |-> JStr(<<"MAX_TOKENS">>)])>>),
                      usageMetadata |-> JObj([totalTokenCount |-> JNum(9)])])
          [] tok = "{o3-number}" ->
                JObj([model |-> JNum(3), stream |-> JBool(TRUE)])
          [] OTHER -> JObj([ok |-> JBool(TRUE)])]

\* Bytes: a text (characters and document tokens), or the compact
\* serialisation of a value no token stands for, or the lines that a
\* streaming converter joined
RawBytes(text) == [kind |-> "raw", text |-> text]

JsonBytes(value) == [kind |-> "json", value |-> value]

LinesBytes(converted_lines) == [kind |-> "lines", lines |-> converted_lines]

\* serde_json::from_str on a text: white space, one document, white space
FromStr(text) ==
    IF Len(Trim(text)) = 1 /\ Trim(text)[1] \in DOMAIN JsonDocs
    THEN Some(JsonDocs[Trim(text)[1]])
    ELSE None

\* A parser that reads every text that holds no JSON document as an o3 request
FromSliceAnyText(bytes) ==
    IF bytes.kind = "json" THEN Some(bytes.value)
    ELSE IF bytes.kind = "raw"
    THEN (IF FromStr(bytes.text) # None THEN FromStr(bytes.text)
          ELSE Some(JsonDocs["{o3}"]))
    ELSE None

\* serde_json::from_slice
FromSlice(bytes) ==
    IF bytes.kind = "json" THEN Some(bytes.value)
    ELSE IF bytes.kind = "raw" THEN FromStr(bytes.text)
    ELSE None

\* serde_json::to_vec
ToVec(value) ==
    IF \E tok \in DOMAIN JsonDocs : JsonDocs[tok] = value
    THEN RawBytes(<<CHOOSE tok \in DOMAIN JsonDocs : JsonDocs[tok] = value>>)
    ELSE JsonBytes(value)

\* Whether needle occurs in s at position i
MatchAt(s, needle, i) ==
    /\ i + Len(needle) - 1 <= Len(s)
    /\ SubSeq(s, i, i + Len(needle) - 1) = needle

\* str::contains
Contains(s, needle) == \E i \in 1..(Len(s) + 1) : MatchAt(s, needle, i)

\* str::replace: every non-overlapping occurrence, from the left
RECURSIVE Replace(_, _, _)
Replace(s, from, to) ==
    IF s = <<>> THEN <<>>
    ELSE IF from # <<>> /\ MatchAt(s, from, 1)
         THEN to \o Replace(SubSeq(s, Len(from) + 1, Len(s)), from, to)
         ELSE <<Head(s)>> \o Replace(Tail(s), from, to)

\* A base that keeps its slashes
KeepEndSlashes(s) == s

\* str::trim_end_matches('/')
RECURSIVE TrimEndSlashes(_)
TrimEndSlashes(s) ==
    IF s # <<>> /\ s[Len(s)] = "/"
    THEN TrimEndSlashes(SubSeq(s, 1, Len(s) - 1))
    ELSE s

\* [String]::join(sep)
RECURSIVE Join(_, _)
Join(texts, sep) ==
    IF texts = <<>> THEN <<>>
    ELSE IF Len(texts) = 1 THEN texts[1]
    ELSE texts[1] \o sep \o Join(Tail(texts), sep)

-----------------------------------------------------------------------------
(* The request-side converters of service.rs.                              *)

\* A looser test of the path: any "/responses"
AnyResponses == <<"/", "responses">>

V1Responses == <<"/", "v1", "/", "responses">>

V1ChatCompletions == <<"/", "v1", "/", "chat", "/", "completions">>

\* Messages for the items that have a string role, with or without a content
InputToMessagesWithoutContent(input) ==
    LET picked == SelectSeq(input, LAMBDA item : GetStr(item, "role") # None)
    IN  [i \in DOMAIN picked |->
            JObj([role |-> JStr(GetStr(picked[i], "role")[1]),
                  content |-> UnwrapOr(JGet(picked[i], "content"), JNull)])]

\* The messages of convert_responses_to_chat_completions: one per input
\* item that has a string role and a content
RECURSIVE InputToMessages(_)
InputToMessages(input) ==
    IF input = <<>> THEN <<>>
    ELSE LET item == Head(input)
         IN  (IF GetStr(item, "role") # None /\ JGet(item, "content") # None
              THEN <<JObj([role |-> JStr(GetStr(item, "role")[1]),
                           content |-> JGet(item, "content")[1]])>>
              ELSE <<>>)
             \o InputToMessages(Tail(input))

\* convert_responses_to_chat_completions (it never returns Err)
convert_responses_to_chat_completions(responses_request) ==
    LET keys ==
            {k \in {"model", "stream", "temperature"} :
                JGet(responses_request, k) # None}
            \cup (IF JGet(responses_request, "max_completion_tokens") # None
                  THEN {"max_tokens"} ELSE {})
            \cup (IF GetArray(responses_request, "input") # None
                  THEN {"messages"} ELSE {})
    IN  JObj([k \in keys |->
                IF k = "max_tokens"
                THEN JGet(responses_request, "max_completion_tokens")[1]
                ELSE IF k = "messages"
                THEN JArr(InputToMessages(GetArray(responses_request, "input")[1]))
                ELSE JGet(responses_request, k)[1]])

\* What a converter returns: (config, body, converted, original request)
Converted(config0, bytes, fired, original) ==
    [config |-> config0, body |-> bytes, converted |-> fired,
     original |-> original]

handle_o3_model_conversion(config0, body_bytes) ==
    IF ~Contains(config0.path, V1Responses)
    THEN Converted(config0, body_bytes, FALSE, None)
    ELSE IF FromSlice(body_bytes) = None
    THEN Converted(config0, body_bytes, FALSE, None)
    ELSE LET request_json == FromSlice(body_bytes)[1]
             model == UnwrapOr(GetStr(request_json, "model"), <<>>)
         IN  IF ~StartsWith(model, <<"o3">>)
             THEN Converted(config0, body_bytes, FALSE, None)
             ELSE LET chat_request ==
                          convert_responses_to_chat_completions(request_json)
                      chat_config ==
                          [config0 EXCEPT
                             !.target_url = Replace(config0.target_url,
                                                    V1Responses,
                                                    V1ChatCompletions),
                             !.path = Replace(config0.path, V1Responses,
                                              V1ChatCompletions)]
                  IN  Converted(chat_config, ToVec(chat_request), TRUE,
                                Some(request_json))

GoogleProviderPrefix == <<"/", "api", "/", "provider", "/", "google", "/">>

SlashResponses == <<"/", "responses">>

\* Value::to_string of a value that is no string (compact JSON); the
\* members of an object are written in one fixed order
RECURSIVE ValueToString(_)
ValueToString(v) ==
    LET RECURSIVE Items(_)
        Items(a) ==
            IF a = <<>> THEN <<>>
            ELSE IF Len(a) = 1 THEN ValueToString(a[1])
            ELSE ValueToString(a[1]) \o <<",">> \o Items(Tail(a))
        RECURSIVE Members(_)
        Members(keys) ==
            IF keys = {} THEN <<>>
            ELSE LET k == CHOOSE x \in keys : TRUE
                 IN  <<"\"", k, "\"", ":">> \o ValueToString(v.o[k])
                     \o (IF keys = {k} THEN <<>>
                         ELSE <<",">> \o Members(keys \ {k}))
    IN  CASE v.t = "null" -> <<"null">>
          [] v.t = "bool" -> IF v.b THEN <<"true">> ELSE <<"false">>
          [] v.t = "num" -> <<ToString(v.n)>>
          [] v.t = "str" -> <<"\"">> \o v.s \o <<"\"">>
          [] v.t = "arr" -> <<"[">> \o Items(v.a) \o <<"]">>
          [] OTHER -> <<"{">> \o Members(DOMAIN v.o) \o <<"}">>

\* The text/content strings of an array of content blocks, concatenated
RECURSIVE BlockTexts(_)
BlockTexts(arr) ==
    IF arr = <<>> THEN <<>>
    ELSE (IF GetStr(Head(arr), "text") # None
          THEN GetStr(Head(arr), "text")[1]
          ELSE IF GetStr(Head(arr), "content") # None
          THEN GetStr(Head(arr), "content")[1]
          ELSE <<>>)
         \o BlockTexts(Tail(arr))

content_value_to_text(content) ==
    IF AsStr(content) # None THEN Some(AsStr(content)[1])
    ELSE IF AsArray(content) # None /\ BlockTexts(AsArray(content)[1]) # <<>>
    THEN Some(BlockTexts(AsArray(content)[1]))
    ELSE Some(ValueToString(content))

\* The role and the content of an input item, with their defaults
ItemRole(item) == UnwrapOr(GetStr(item, "role"), <<"user">>)

ItemContent(item) == UnwrapOr(JGet(item, "content"), JStr(<<>>))

\* Contents that keep the role of the item
GeminiContentsKeepingRole(input) ==
    LET picked == SelectSeq(input,
                     LAMBDA item : ~EqIgnoreAsciiCase(ItemRole(item), <<"system">>))
    IN  [i \in DOMAIN picked |->
            JObj([role |-> JStr(ItemRole(picked[i])),
                  parts |-> JArr(<<JObj([text |-> JStr(
                      UnwrapOr(content_value_to_text(ItemContent(picked[i])),
                               <<>>))])>>)])]

\* The contents of convert_responses_to_gemini_request: the input items
\* that are not system items
RECURSIVE GeminiContents(_)
GeminiContents(input) ==
    IF input = <<>> THEN <<>>
    ELSE LET item == Head(input)
             role == ItemRole(item)
             gemini_role == IF role = <<"assistant">> THEN <<"model">>
                            ELSE <<"user">>
             text == UnwrapOr(content_value_to_text(ItemContent(item)), <<>>)
         IN  (IF EqIgnoreAsciiCase(role, <<"system">>) THEN <<>>
              ELSE <<JObj([role |-> JStr(gemini_role),
                           parts |-> JArr(<<JObj([text |-> JStr(text)])>>)])>>)
             \o GeminiContents(Tail(input))

\* The system_texts of convert_responses_to_gemini_request
RECURSIVE SystemTexts(_)
SystemTexts(input) ==
    IF input = <<>> THEN <<>>
    ELSE LET item == Head(input)
         IN  (IF EqIgnoreAsciiCase(ItemRole(item), <<"system">>)
              THEN <<content_value_to_text(ItemContent(item))[1]>>
              ELSE <<>>)
             \o SystemTexts(Tail(input))

\* The generationConfig of convert_responses_to_gemini_request
GenerationConfig(responses_request) ==
    LET from == [temperature |-> "temperature",
                 maxOutputTokens |-> "max_completion_tokens",
                 topP |-> "top_p", topK |-> "top_k"]
        keys == {k \in DOMAIN from : JGet(responses_request, from[k]) # None}
    IN  [k \in keys |-> JGet(responses_request, from[k])[1]]

\* convert_responses_to_gemini_request (it never returns Err)
convert_responses_to_gemini_request(responses_request) ==
    LET input == UnwrapOr(GetArray(responses_request, "input"), <<>>)
        gen_cfg == GenerationConfig(responses_request)
        system_texts == SystemTexts(input)
        keys == {"contents"}
                \cup (IF DOMAIN gen_cfg # {} THEN {"generationConfig"} ELSE {})
                \cup (IF system_texts # <<>> THEN {"systemInstruction"} ELSE {})
    IN  JObj([k \in keys |->
                IF k = "contents" THEN JArr(GeminiContents(input))
                ELSE IF k = "generationConfig" THEN JObj(gen_cfg)
                ELSE JObj([parts |-> JArr(<<JObj([text |->
                              JStr(Join(system_texts, <<LF, LF>>))])>>)])])

handle_google_responses_conversion(config0, body_bytes) ==
    IF ~(Contains(config0.path, GoogleProviderPrefix)
         /\ Contains(config0.path, SlashResponses))
    THEN Converted(config0, body_bytes, FALSE, None)
    ELSE IF FromSlice(body_bytes) = None
    THEN Converted(config0, body_bytes, FALSE, None)
    ELSE LET request_json == FromSlice(body_bytes)[1]
             model == UnwrapOr(GetStr(request_json, "model"), <<>>)
             is_stream == UnwrapOr(GetBool(request_json, "stream"), FALSE)
             op == IF is_stream THEN "streamGenerateContent"
                   ELSE "generateContent"
             base == TrimEndSlashes(config0.target_url)
         IN  IF model = <<>>
             THEN Converted(config0, body_bytes, FALSE, None)
             ELSE Converted(
                    [config0 EXCEPT
                       !.target_url = base \o <<"/">> \o model \o <<":", op>>,
                       !.path = <<"/", "api", "/", "provider", "/", "google",
                                  "/", "v1beta", "/", "models", "/">>
                                \o model \o <<":", op>>],
                    ToVec(convert_responses_to_gemini_request(request_json)),
                    TRUE, Some(request_json))

-----------------------------------------------------------------------------
(* Header maps.  A map is the sequence of its (name, value) entries; names *)
(* are case-insensitive and kept in lower case.                            *)

\* HeaderName::from_bytes
HeaderName(name) == ToLowercase(name)

\* HeaderMap::get: the first value of the name
RECURSIVE HeaderGet(_, _)
HeaderGet(headers, name) ==
    IF headers = <<>> THEN None
    ELSE IF Head(headers)[1] = HeaderName(name) THEN Some(Head(headers)[2])
    ELSE HeaderGet(Tail(headers), name)

\* HeaderMap::get_all
HeaderGetAll(headers, name) ==
    SelectSeq(headers, LAMBDA e : e[1] = HeaderName(name))

\* RequestBuilder::header and response::Builder::header: HeaderMap::append,
\* which keeps the values the name already has
HeaderAppend(headers, name, value) ==
    Append(headers, <<HeaderName(name), value>>)

\* HeaderMap::insert: replaces the values the name already has
HeaderInsert(headers, name, value) ==
    Append(SelectSeq(headers, LAMBDA e : e[1] # HeaderName(name)),
           <<HeaderName(name), value>>)

\* HeaderMap::extend with a HeaderMap of one value per name
RECURSIVE HeaderExtend(_, _)
HeaderExtend(headers, other) ==
    IF other = <<>> THEN headers
    ELSE HeaderExtend(HeaderInsert(headers, Head(other)[1], Head(other)[2]),
                      Tail(other))

\* get_amp_api_key(): the key that start() stored in AMP_API_KEY
AMP_API_KEY == <<"amp-key">>

get_amp_api_key == AMP_API_KEY

\* format!("Bearer {}", key)
Bearer(key) == <<"Bearer", SP>> \o key

\* A loop body that sends an empty value for a header the inbound request
\* lacks
ForwardRequestHeaderOrEmpty(headers, inbound, header_name) ==
    HeaderAppend(headers, header_name,
                 UnwrapOr(HeaderGet(inbound, header_name), <<>>))

\* The body of the loop over forward_request_headers
ForwardRequestHeader(headers, inbound, header_name) ==
    IF HeaderGet(inbound, header_name) # None
    THEN HeaderAppend(headers, header_name, HeaderGet(inbound, header_name)[1])
    ELSE headers

\* The loop over forward_request_headers
RECURSIVE ForwardRequestHeaders(_, _, _)
ForwardRequestHeaders(headers, inbound, names) ==
    IF names = <<>> THEN headers
    ELSE ForwardRequestHeaders(
            ForwardRequestHeader(headers, inbound, Head(names)),
            inbound, Tail(names))

\* The loop over custom_headers, in the order the HashMap yields them
RECURSIVE AddCustomHeaders(_, _)
AddCustomHeaders(headers, entries) ==
    IF entries = <<>> THEN headers
    ELSE AddCustomHeaders(
            HeaderAppend(headers, Head(entries)[1], Head(entries)[2]),
            Tail(entries))

\* The orders in which a HashMap can yield its entries
RECURSIVE IterationOrders(_)
IterationOrders(entries) ==
    IF entries = {} THEN {<<>>}
    ELSE UNION {{<<e>> \o o : o \in IterationOrders(entries \ {e})} :
                e \in entries}

LlmProxy == <<"llm-proxy">>

\* The special handling of the LLM proxy
AddLlmProxyAuth(headers, final_config) ==
    IF Contains(final_config.path, LlmProxy)
    THEN HeaderAppend(headers, <<"authorization">>, Bearer(get_amp_api_key))
    ELSE headers

\* Method::from_bytes: an empty method is no method
MethodFromBytes(m) == IF m = <<>> THEN None ELSE Some(m)

\* A request whose body, when it is JSON, is written anew
BuildRequestReencoded(final_config, final_body_bytes, inbound, custom_order) ==
    [method |-> MethodFromBytes(final_config.method)[1],
     url |-> final_config.target_url,
     body |-> IF FromSlice(final_body_bytes) # None
              THEN ToVec(FromSlice(final_body_bytes)[1])
              ELSE final_body_bytes,
     headers |->
        AddLlmProxyAuth(
            AddCustomHeaders(
                ForwardRequestHeaders(<<>>, inbound,
                                      final_config.forward_request_headers),
                custom_order),
            final_config)]

\* The request that handle_proxy_request builds
BuildRequest(final_config, final_body_bytes, inbound, custom_order) ==
    [method |-> MethodFromBytes(final_config.method)[1],
     url |-> final_config.target_url,
     body |-> final_body_bytes,
     headers |->
        AddLlmProxyAuth(
            AddCustomHeaders(
                ForwardRequestHeaders(<<>>, inbound,
                                      final_config.forward_request_headers),
                custom_order),
            final_config)]

\* The Err((status, message)) and the Ok(response) of a handler
Fail(status, msg) == [ok |-> FALSE, status |-> status, msg |-> msg]

Okay(response) == [ok |-> TRUE, response |-> response]

\* A check of the status that lets every status pass
is_success_always(status) == TRUE

\* StatusCode::is_success
is_success(status) == 200 <= status /\ status < 300

\* An error result that hands on what the upstream answered
UpstreamErrorPassedOn(response) == Fail(response.status, response.body)

\* What handle_proxy_request returns for an upstream status that is no success
UpstreamErrorResult(response) == Fail(502, <<"Upstream server error">>)

\* What handle_proxy_request returns when the request could not be sent
ForwardFailedResult(e) == Fail(502, <<"Forward failed: ">> \o e)

-----------------------------------------------------------------------------
(* The response handlers.  A response has a status, a header map and a     *)
(* body; a body is full (its bytes are in memory) or lazy: "stream" relays *)
(* the upstream chunks, "sse" runs the framer over them.                   *)

FullBody(bytes) == [kind |-> "full", bytes |-> bytes]

StreamBody == [kind |-> "stream"]

SseBody == [kind |-> "sse"]

Response(status, headers, response_body) ==
    [status |-> status, headers |-> headers, body |-> response_body]

ContentType == <<"content-type">>

TextEventStream == <<"text/event-stream">>

\* The response_headers of the sse, json and html handlers
RECURSIVE ForwardResponseHeaders(_, _, _)
ForwardResponseHeaders(response_headers, upstream_headers, names) ==
    IF names = <<>> THEN response_headers
    ELSE ForwardResponseHeaders(
            IF HeaderGet(upstream_headers, Head(names)) # None
            THEN HeaderInsert(response_headers, Head(names),
                              HeaderGet(upstream_headers, Head(names))[1])
            ELSE response_headers,
            upstream_headers, Tail(names))

\* The headers of Sse::new(stream).into_response()
SseResponseHeaders ==
    <<<<ContentType, TextEventStream>>, <<<<"cache-control">>, <<"no-cache">>>>>>

\* handle_sse_response, which returns before it reads the upstream body
handle_sse_response(response, config0) ==
    Okay(Response(200,
                  HeaderExtend(SseResponseHeaders,
                               ForwardResponseHeaders(<<>>, response.headers,
                                   config0.forward_response_headers)),
                  SseBody))

\* The headers of handle_stream_response
RECURSIVE StreamResponseHeaders(_, _, _)
StreamResponseHeaders(response_headers, upstream_headers, names) ==
    IF names = <<>> THEN response_headers
    ELSE StreamResponseHeaders(
            IF /\ HeaderGet(upstream_headers, Head(names)) # None
               /\ ~StartsWith(Head(names), <<"connection">>)
               /\ ~StartsWith(Head(names), <<"transfer-encoding">>)
            THEN HeaderAppend(response_headers, Head(names),
                              HeaderGet(upstream_headers, Head(names))[1])
            ELSE response_headers,
            upstream_headers, Tail(names))

\* An is_streaming that knows text/event-stream only
IsEventStreamContentType(upstream_headers) ==
    /\ HeaderGet(upstream_headers, ContentType) # None
    /\ Contains(HeaderGet(upstream_headers, ContentType)[1], TextEventStream)

\* The is_streaming of handle_stream_response
IsStreamingContentType(upstream_headers) ==
    /\ HeaderGet(upstream_headers, ContentType) # None
    /\ \/ Contains(HeaderGet(upstream_headers, ContentType)[1], TextEventStream)
       \/ Contains(HeaderGet(upstream_headers, ContentType)[1],
                   <<"application/stream">>)

FailedToReadResponse == Fail(500, <<"Failed to read response">>)

\* handle_stream_response; read is the outcome of response.bytes(), which
\* the handler awaits only when the upstream is no stream
handle_stream_response(response, config0, read) ==
    LET response_headers ==
            StreamResponseHeaders(<<>>, response.headers,
                                  config0.forward_response_headers)
    IN  IF IsStreamingContentType(response.headers)
        THEN Okay(Response(response.status, response_headers, StreamBody))
        ELSE IF read = None THEN FailedToReadResponse
        ELSE Okay(Response(response.status, response_headers,
                           FullBody(read[1])))

\* handle_json_response; read is the outcome of response.bytes()
handle_json_response(response, config0, read) ==
    LET response_headers ==
            ForwardResponseHeaders(<<>>, response.headers,
                                   config0.forward_response_headers)
    IN  IF read = None THEN FailedToReadResponse
        ELSE IF FromSlice(read[1]) # None
        THEN Okay(Response(response.status,
                           HeaderExtend(<<<<ContentType, <<"application/json">>>>>>,
                                        response_headers),
                           FullBody(ToVec(FromSlice(read[1])[1]))))
        ELSE Okay(Response(response.status,
                           HeaderExtend(<<<<ContentType,
                                           <<"text/plain", ";", SP, "charset=utf-8">>>>>>,
                                        response_headers),
                           FullBody(read[1])))

\* handle_html_response; read is the outcome of response.text()
handle_html_response(response, config0, read) ==
    LET response_headers ==
            ForwardResponseHeaders(<<>>, response.headers,
                                   config0.forward_response_headers)
    IN  IF read = None THEN FailedToReadResponse
        ELSE Okay(Response(response.status,
                           HeaderExtend(<<<<ContentType, <<"text/html">>>>>>,
                                        response_headers),
                           FullBody(RawBytes(Utf8Lossy(read[1].text)))))

\* Whether the handler of the response type reads the whole upstream body
\* before it returns
ReadsWholeBody(response, config0) ==
    \/ config0.response_type \in {"Json", "Html"}
    \/ config0.response_type = "Stream" /\ ~IsStreamingContentType(response.headers)

\* The match on final_config.response_type
TranscodeResponse(response, config0, read) ==
    CASE config0.response_type = "Sse" -> handle_sse_response(response, config0)
      [] config0.response_type = "Stream" ->
            handle_stream_response(response, config0, read)
      [] config0.response_type = "Json" ->
            handle_json_response(response, config0, read)
      [] OTHER -> handle_html_response(response, config0, read)

\* The bytes of Event::default().data(data) on the wire
EncodeEvent(data) == DataSpacePrefix \o data \o <<LF, LF>>

RECURSIVE EncodeEvents(_)
EncodeEvents(evs) ==
    IF evs = <<>> THEN <<>> ELSE EncodeEvent(Head(evs)) \o EncodeEvents(Tail(evs))

-----------------------------------------------------------------------------
(* The response-side converters.  A converted line is empty, the [DONE]    *)
(* line, or "data: " followed by the serialisation of a value.             *)

EmptyLine == [line |-> "empty"]

DoneLine == [line |-> "done"]

DataLine(value) == [line |-> "data", value |-> value]

\* Option<&Value> inside json!: the value, or null
OrNull(opt) == IF opt = None THEN JNull ELSE opt[1]

\* Vec::first of the array under a key
FirstOf(v, key) ==
    IF GetArray(v, key) = None \/ GetArray(v, key) = Some(<<>>) THEN None
    ELSE Some(GetArray(v, key)[1][1])

\* The "response" member of a created or completed event
ResponseObject(chunk, default_model, with_usage, usage) ==
    LET keys == {"id", "object", "created", "model"}
                \cup (IF with_usage THEN {"usage"} ELSE {})
    IN  JObj([k \in keys |->
                CASE k = "id" ->
                        UnwrapOr(JGet(chunk, "id"), JStr(<<"response-unknown">>))
                  [] k = "object" -> JStr(<<"response">>)
                  [] k = "created" -> UnwrapOr(JGet(chunk, "created"), JNum(0))
                  [] k = "model" ->
                        UnwrapOr(JGet(chunk, "model"), JStr(default_model))
                  [] OTHER -> usage])

DeltaEvent(delta) ==
    JObj([type |-> JStr(<<"response.output_text.delta">>), delta |-> delta])

CompletedEvent(chunk, default_model, usage) ==
    JObj([type |-> JStr(<<"response.completed">>),
          response |-> ResponseObject(chunk, default_model, TRUE, usage)])

CreatedEvent(chunk, default_model) ==
    JObj([type |-> JStr(<<"response.created">>),
          response |-> ResponseObject(chunk, default_model, FALSE, JNull)])

\* A conversion that looks at finish_reason before it looks at the content
chat_chunk_finish_reason_first(chat_chunk) ==
    LET first_choice == FirstOf(chat_chunk, "choices")
        delta == IF first_choice = None THEN None
                 ELSE JGet(first_choice[1], "delta")
        content == IF delta = None THEN None ELSE JGet(delta[1], "content")
        finish_reason == IF first_choice = None THEN None
                         ELSE JGet(first_choice[1], "finish_reason")
    IN  IF finish_reason # None /\ finish_reason[1] # JNull
        THEN Some(CompletedEvent(chat_chunk, <<"o3">>,
                                 OrNull(JGet(chat_chunk, "usage"))))
        ELSE IF content # None THEN Some(DeltaEvent(content[1]))
        ELSE IF JGet(chat_chunk, "id") # None /\ JGet(chat_chunk, "choices") # None
        THEN Some(CreatedEvent(chat_chunk, <<"o3">>))
        ELSE None

\* convert_chat_chunk_to_responses_chunk: Some(event), or None for its Err
convert_chat_chunk_to_responses_chunk(chat_chunk) ==
    LET first_choice == FirstOf(chat_chunk, "choices")
        delta == IF first_choice = None THEN None
                 ELSE JGet(first_choice[1], "delta")
        content == IF delta = None THEN None ELSE JGet(delta[1], "content")
        finish_reason == IF first_choice = None THEN None
                         ELSE JGet(first_choice[1], "finish_reason")
    IN  IF content # None THEN Some(DeltaEvent(content[1]))
        ELSE IF finish_reason # None /\ finish_reason[1] # JNull
        THEN Some(CompletedEvent(chat_chunk, <<"o3">>,
                                 OrNull(JGet(chat_chunk, "usage"))))
        ELSE IF JGet(chat_chunk, "id") # None /\ JGet(chat_chunk, "choices") # None
        THEN Some(CreatedEvent(chat_chunk, <<"o3">>))
        ELSE None

\* The text after the "data: " prefix of a line (&line[6..])
DataPart(line) == SubSeq(line, Len(DataSpacePrefix) + 1, Len(line))

\* The loop over body_text.lines() of convert_chat_completions_to_responses_format
RECURSIVE ChatLines(_)
ChatLines(ls) ==
    IF ls = <<>> THEN <<>>
    ELSE LET line == Head(ls)
         IN  (IF StartsWith(line, DataSpacePrefix)
              THEN IF DataPart(line) = DoneSentinel THEN <<DoneLine>>
                   ELSE IF FromStr(DataPart(line)) = None THEN <<>>
                   ELSE IF convert_chat_chunk_to_responses_chunk(
                               FromStr(DataPart(line))[1]) = None THEN <<>>
                   ELSE <<DataLine(convert_chat_chunk_to_responses_chunk(
                               FromStr(DataPart(line))[1])[1])>>
              ELSE IF line = <<>> THEN <<EmptyLine>>
              ELSE <<>>)
             \o ChatLines(Tail(ls))

\* The response that both streaming converters build
ConvertedStream(converted_lines) ==
    Response(200,
             <<<<ContentType, TextEventStream>>,
               <<<<"cache-control">>, <<"no-cache">>>>,
               <<<<"connection">>, <<"keep-alive">>>>>>,
             FullBody(LinesBytes(converted_lines)))

\* convert_chat_completion_to_responses_json
convert_chat_completion_to_responses_json(chat_response) == chat_response

\* convert_chat_completions_to_responses_format; read is the outcome of
\* axum::body::to_bytes on the body of the response
convert_chat_completions_to_responses_format(read, is_streaming) ==
    IF ~is_streaming
    THEN IF read = None
         THEN Fail(500, <<"Failed to read response body">>)
         ELSE IF FromSlice(read[1]) = None
         THEN Fail(500, <<"Failed to parse response JSON">>)
         ELSE Okay(Response(200, <<<<ContentType, <<"application/json">>>>>>,
                   FullBody(ToVec(convert_chat_completion_to_responses_json(
                                      FromSlice(read[1])[1])))))
    ELSE IF read = None
         THEN Fail(500, <<"Failed to read streaming response">>)
         ELSE Okay(ConvertedStream(ChatLines(Lines(Utf8Lossy(read[1].text)))))

maybe_gemini_created_event(chunk) ==
    IF JGet(chunk, "candidates") # None
    THEN Some(CreatedEvent(chunk, <<"gemini">>))
    ELSE None

\* A check that takes a finishReason of null for a finish
gemini_chunk_has_finish_reason(chunk) ==
    /\ FirstOf(chunk, "candidates") # None
    /\ JGet(FirstOf(chunk, "candidates")[1], "finishReason") # None

gemini_chunk_finished(chunk) ==
    /\ FirstOf(chunk, "candidates") # None
    /\ JGet(FirstOf(chunk, "candidates")[1], "finishReason") # None
    /\ JGet(FirstOf(chunk, "candidates")[1], "finishReason")[1] # JNull

\* The text members of the parts, concatenated
RECURSIVE PartTexts(_)
PartTexts(parts) ==
    IF parts = <<>> THEN <<>>
    ELSE UnwrapOr(GetStr(Head(parts), "text"), <<>>) \o PartTexts(Tail(parts))

extract_gemini_text_delta(chunk) ==
    LET first == FirstOf(chunk, "candidates")
        content == IF first = None THEN None ELSE JGet(first[1], "content")
        parts == IF content = None THEN None ELSE GetArray(content[1], "parts")
        acc0 == IF parts = None THEN <<>> ELSE PartTexts(parts[1])
    IN  IF acc0 = <<>> THEN None ELSE Some(acc0)

\* The lines that convert_gemini_to_responses_format pushes for one chunk
GeminiChunkLines(chunk) ==
    (IF maybe_gemini_created_event(chunk) # None
     THEN <<DataLine(maybe_gemini_created_event(chunk)[1])>> ELSE <<>>)
    \o (IF extract_gemini_text_delta(chunk) # None
        THEN <<DataLine(DeltaEvent(JStr(extract_gemini_text_delta(chunk)[1])))>>
        ELSE <<>>)
    \o (IF gemini_chunk_finished(chunk)
        THEN <<DataLine(CompletedEvent(chunk, <<"gemini">>,
                                       OrNull(JGet(chunk, "usageMetadata"))))>>
        ELSE <<>>)

\* The loop over body_text.lines() of convert_gemini_to_responses_format
RECURSIVE GeminiLines(_)
GeminiLines(ls) ==
    IF ls = <<>> THEN <<>>
    ELSE LET line == Head(ls)
         IN  (IF StartsWith(line, DataSpacePrefix)
              THEN IF DataPart(line) = DoneSentinel THEN <<DoneLine>>
                   ELSE IF FromStr(DataPart(line)) = None THEN <<>>
                   ELSE GeminiChunkLines(FromStr(DataPart(line))[1])
              ELSE IF line = <<>> THEN <<EmptyLine>>
              ELSE <<>>)
             \o GeminiLines(Tail(ls))

\* The streaming branch of convert_gemini_to_responses_format; read is the
\* outcome of axum::body::to_bytes on the body of the response
convert_gemini_to_responses_format(read) ==
    IF read = None
    THEN Fail(500, <<"Failed to read streaming response">>)
    ELSE Okay(ConvertedStream(GeminiLines(Lines(Utf8Lossy(read[1].text)))))

-----------------------------------------------------------------------------
(* handle_proxy_request as a state machine: one request on one route, from *)
(* the moment the router hands it over until its response body ends.       *)

\* The routes a request can arrive on: three of ProxyConfig::default() and
\* three an operator configured
DispatchRoutes ==
    { ProxyConfigDefault.endpoints[2],
      ProxyConfigDefault.endpoints[4],
      ProxyConfigDefault.endpoints[6],
      DefaultEndpoint(ApiProvider("google") \o <<"v1beta", "/", "responses">>,
                      ApiKeyInfo \o GoogleModels \o <<"/">>,
                      <<"POST">>, "Sse", CommonRequestHeaders,
                      CommonResponseHeaders),
      [DefaultEndpoint(<<"/", "portal">>,
                       <<"https", "://", "portal.example", "/">>,
                       <<"get">>, "Html",
                       <<H("x-api-key"), H("Authorization"), H("accept")>>,
                       <<H("content-type"), H("connection")>>)
         EXCEPT !.custom_headers = {<<H("x-api-key"), <<"service-key">>>>,
                                    <<H("x-trace"), <<"on">>>>}],
      [DefaultEndpoint(<<"/", "internal", "/", "llm-proxy">>,
                       <<"https", "://", "llm.example", "/", "v1">>,
                       <<"POST">>, "Stream", <<H("content-type")>>,
                       <<H("content-type"), H("Connection"),
                         H("transfer-encoding")>>)
         EXCEPT !.custom_headers = {<<H("authorization"),
                                      <<"Basic", SP, "operator">>>>}] }

CallerAuthorization == <<H("authorization"), <<"Bearer", SP, "caller-token">>>>

\* The header maps of inbound requests
InboundHeaders ==
    { <<>>,
      <<CallerAuthorization>>,
      <<<<H("x-api-key"), <<"caller-key">>>>, CallerAuthorization>>,
      <<<<H("x-api-key"), <<"caller-key">>>>,
        <<H("x-api-key"), <<"second-key">>>>,
        <<H("content-type"), <<"application/json">>>>>> }

\* The bodies of inbound requests
RequestBodies ==
    { <<>>, <<"hello">>, <<"{o3-stream}">>, <<"{o3}", LF>>, <<"{gpt-stream}">>,
      <<"{gemini-stream}">>, <<"{gemini}">>, <<"{no-model}">> }

UpStatuses == {200, 201, 304, 404, 500}

\* The header maps of upstream responses
UpHeaders ==
    { <<>>,
      <<<<ContentType, <<"text/event-stream", ";", SP, "charset=utf-8">>>>,
        <<H("connection"), <<"close">>>>>>,
      <<<<ContentType, <<"application/json">>>>,
        <<H("x-upstream-node"), <<"node-7">>>>>>,
      <<<<ContentType, <<"application/stream", "+json">>>>>> }

ChatSse ==
    DataSpacePrefix \o <<"{chat-delta}", LF, LF>>
    \o DataSpacePrefix \o <<"[DONE]", LF>>

GeminiSse == DataSpacePrefix \o <<"{gem-stop}", LF>>

\* The bodies of upstream responses
UpBodies ==
    { <<>>, ChatSse, GeminiSse, <<"{chat-completion}", LF>>,
      <<"upstream", SP, "detail">> }

\* What req_builder.send() can come back with
UpstreamOutcomes ==
    {[kind |-> "error", error |-> <<"connection refused">>]}
    \cup {[kind |-> "response", status |-> st, headers |-> h, body |-> b] :
            st \in UpStatuses, h \in UpHeaders, b \in UpBodies}

Init ==
    /\ reqPc = "start"
    /\ config \in DispatchRoutes
    /\ req \in [headers : InboundHeaders, body : RequestBodies]
    /\ conv = None
    /\ outbound = <<>>
    /\ upstream = None
    /\ resp = None
    /\ result = None
    /\ acc = <<>>
    /\ accChunks = 0
    /\ delivered = NoBytes
    /\ steps = <<>>
    /\ failedAt = "none"
    /\ SseIdle
    /\ CfgIdle
    /\ FnIdle
    /\ ConIdle
    /\ RbIdle

\* axum::body::to_bytes(body): the request body is read, or 400
ReadRequestBody ==
    /\ reqPc = "start"
    /\ \E read_ok \in BOOLEAN :
          IF read_ok
          THEN /\ reqPc' = "read"
               /\ UNCHANGED <<result, failedAt>>
          ELSE /\ reqPc' = "done"
               /\ result' = Some(Fail(400, <<"Unable to read request body">>))
               /\ failedAt' = "ReadBody"
    /\ UNCHANGED <<config, req, conv, outbound, upstream, resp, acc,
                   accChunks, delivered, steps>>
    /\ UNCHANGED <<sseVars, cfgVars, fnVars, conVars, rbVars>>

\* The two request-side converters, o3 first; neither has a reachable Err
RequestConversions(config0, body_bytes) ==
    LET o3 == handle_o3_model_conversion(config0, body_bytes)
        google == handle_google_responses_conversion(o3.config, o3.body)
    IN  [final_config |-> google.config,
         final_body_bytes |-> google.body,
         is_o3_conversion |-> o3.converted,
         original_request_json_o3 |-> o3.original,
         is_google_conversion |-> google.converted,
         original_request_json_google |-> google.original]

ConvertRequest ==
    /\ reqPc = "read"
    /\ conv' = Some(RequestConversions(config, RawBytes(req.body)))
    /\ steps' = Append(steps, "ConvertRequest")
    /\ reqPc' = "converted"
    /\ UNCHANGED <<config, req, outbound, upstream, resp, result, acc,
                   accChunks, delivered, failedAt>>
    /\ UNCHANGED <<sseVars, cfgVars, fnVars, conVars, rbVars>>

\* A handler that builds and sends the request again when send() failed
AfterSendErrorRetry == "converted"

\* `return Err((StatusCode::BAD_GATEWAY, ...))`: the handler is done when
\* send() failed
AfterSendError == "done"

\* What handle_proxy_request does with the outcome of req_builder.send()
SendReturns(outcome) ==
    IF outcome.kind = "error"
    THEN /\ result' = Some(ForwardFailedResult(outcome.error))
         /\ failedAt' = "Forward"
         /\ reqPc' = AfterSendError
         /\ UNCHANGED <<upstream, body, rest, ssePc>>
    ELSE /\ upstream' = Some([status |-> outcome.status,
                              headers |-> outcome.headers])
         /\ body' = outcome.body
         /\ rest' = outcome.body
         /\ IF is_success(outcome.status)
            THEN /\ reqPc' = "forwarded"
                 /\ ssePc' = "reading"
                 /\ UNCHANGED <<result, failedAt>>
            ELSE /\ result' = Some(UpstreamErrorResult(outcome))
                 /\ failedAt' = "Forward"
                 /\ reqPc' = "done"
                 /\ ssePc' = "closed"

\* The request is built and sent with a Client::new(), which has no
\* timeout: send() comes back with an outcome, or the timeout resolved for
\* the route elapses while it is still awaited
Forward ==
    /\ reqPc = "converted"
    /\ steps' = Append(steps, "Forward")
    /\ LET final_config == conv[1].final_config
       IN  IF MethodFromBytes(final_config.method) = None
           THEN /\ result' = Some(Fail(500, <<"Invalid HTTP method">>))
                /\ failedAt' = "Forward"
                /\ reqPc' = "done"
                /\ UNCHANGED <<outbound, upstream, body, rest, ssePc>>
           ELSE \E custom_order \in IterationOrders(final_config.custom_headers) :
                  /\ outbound' = Append(outbound,
                        BuildRequest(final_config, conv[1].final_body_bytes,
                                     req.headers, custom_order))
                  /\ \/ \E outcome \in UpstreamOutcomes : SendReturns(outcome)
                     \/ /\ reqPc' = "awaiting"
                        /\ UNCHANGED <<result, failedAt, upstream, body, rest,
                                       ssePc>>
    /\ UNCHANGED <<config, req, conv, resp, acc, accChunks, delivered>>
    /\ UNCHANGED <<buffer, events, sseErr>>
    /\ UNCHANGED <<cfgVars, fnVars, conVars, rbVars>>

\* send() comes back after the timeout resolved for the route has elapsed
ForwardLate ==
    /\ reqPc = "awaiting"
    /\ \E outcome \in UpstreamOutcomes : SendReturns(outcome)
    /\ UNCHANGED <<config, req, conv, outbound, resp, acc, accChunks,
                   delivered, steps>>
    /\ UNCHANGED <<buffer, events, sseErr>>
    /\ UNCHANGED <<cfgVars, fnVars, conVars, rbVars>>

\* The handler of the response type; those that read the whole upstream
\* body do it here
Transcode ==
    /\ reqPc = "forwarded"
    /\ steps' = Append(steps, "TranscodeResponse")
    /\ LET final_config == conv[1].final_config
           whole == ReadsWholeBody(upstream[1], final_config)
       IN  \E read_ok \in (IF whole THEN BOOLEAN ELSE {TRUE}) :
              LET read == IF read_ok THEN Some(RawBytes(body)) ELSE None
                  r == TranscodeResponse(upstream[1], final_config, read)
              IN  /\ IF r.ok
                     THEN /\ resp' = Some(r.response)
                          /\ reqPc' = "transcoded"
                          /\ UNCHANGED <<result, failedAt>>
                     ELSE /\ result' = Some(r)
                          /\ failedAt' = "TranscodeResponse"
                          /\ reqPc' = "done"
                          /\ UNCHANGED resp
                  /\ IF whole
                     THEN /\ rest' = IF read_ok THEN <<>> ELSE rest
                          /\ ssePc' = "closed"
                          /\ sseErr' = ~read_ok
                     ELSE UNCHANGED <<rest, ssePc, sseErr>>
    /\ UNCHANGED <<config, req, conv, outbound, upstream, acc, accChunks,
                   delivered>>
    /\ UNCHANGED <<body, buffer, events>>
    /\ UNCHANGED <<cfgVars, fnVars, conVars, rbVars>>

\* original_request_json.as_ref().and_then(stream as bool).unwrap_or(false)
IsStreamingRequest(original_request_json) ==
    /\ original_request_json # None
    /\ UnwrapOr(GetBool(original_request_json[1], "stream"), FALSE)

\* Whether a response-side converter is called
NeedsConversion == conv[1].is_o3_conversion \/ conv[1].is_google_conversion

\* An is_streaming taken from the content-type of the upstream response
ConverterStreamingByUpstream ==
    upstream # None /\ IsStreamingContentType(upstream[1].headers)

\* The is_streaming handed to the converter that is called
ConverterStreaming ==
    IF conv[1].is_o3_conversion
    THEN IsStreamingRequest(conv[1].original_request_json_o3)
    ELSE IsStreamingRequest(conv[1].original_request_json_google)

\* convert_gemini_to_responses_format returns the response as it is when
\* the request was no streaming one
PassesThrough == ~conv[1].is_o3_conversion /\ ~ConverterStreaming

\* What the converter that is called returns once to_bytes came back
ConvertBody(read) ==
    IF conv[1].is_o3_conversion
    THEN convert_chat_completions_to_responses_format(read, ConverterStreaming)
    ELSE convert_gemini_to_responses_format(read)

\* The converter returns: result = converter(...)?
FinishConversion(read) ==
    LET r == ConvertBody(read)
    IN  IF r.ok
        THEN /\ resp' = Some(r.response)
             /\ reqPc' = "finished"
             /\ UNCHANGED <<result, failedAt>>
        ELSE /\ result' = Some(r)
             /\ failedAt' = "ConvertResponse"
             /\ reqPc' = "done"
             /\ UNCHANGED resp

\* The response-side converter is called; on a lazy body its to_bytes
\* starts to poll
ConvertResponse ==
    /\ reqPc = "transcoded"
    /\ NeedsConversion
    /\ steps' = Append(steps, "ConvertResponse")
    /\ IF PassesThrough
       THEN /\ reqPc' = "finished"
            /\ UNCHANGED <<resp, result, failedAt>>
       ELSE IF resp[1].body.kind = "full"
       THEN FinishConversion(Some(resp[1].body.bytes))
       ELSE /\ reqPc' = "converting"
            /\ UNCHANGED <<resp, result, failedAt>>
    /\ UNCHANGED <<config, req, conv, outbound, upstream, acc, accChunks,
                   delivered>>
    /\ UNCHANGED <<sseVars, cfgVars, fnVars, conVars, rbVars>>

\* accChunks counts the chunks up to this many
ChunkCountCap == 2

\* to_bytes polls the lazy body: one upstream chunk arrives and what the
\* body makes of it is collected
ConvertRead ==
    /\ reqPc = "converting"
    /\ rest # <<>>
    /\ \E n \in 1..Len(rest) :
          LET chunk == SubSeq(rest, 1, n)
              r == FeedChunk(buffer, chunk)
          IN  /\ rest' = SubSeq(rest, n + 1, Len(rest))
              /\ IF resp[1].body.kind = "stream"
                 THEN /\ acc' = acc \o chunk
                      /\ UNCHANGED <<buffer, events>>
                 ELSE /\ acc' = acc \o EncodeEvents(r.yielded)
                      /\ buffer' = r.buffer
                      /\ events' = events \o r.yielded
    /\ accChunks' = IF accChunks < ChunkCountCap THEN accChunks + 1
                     ELSE accChunks
    /\ UNCHANGED <<reqPc, config, req, conv, outbound, upstream, resp, result,
                   delivered, steps, failedAt>>
    /\ UNCHANGED <<body, ssePc, sseErr>>
    /\ UNCHANGED <<cfgVars, fnVars, conVars, rbVars>>

\* The upstream read fails while to_bytes polls: a relayed stream hands the
\* error on, the framer breaks and flushes
ConvertReadError ==
    /\ reqPc = "converting"
    /\ ssePc' = "closed"
    /\ sseErr' = TRUE
    /\ IF resp[1].body.kind = "stream"
       THEN /\ FinishConversion(None)
            /\ UNCHANGED <<acc, events>>
       ELSE /\ acc' = acc \o EncodeEvents(FlushBuffer(buffer))
            /\ events' = events \o FlushBuffer(buffer)
            /\ FinishConversion(Some(RawBytes(acc')))
    /\ UNCHANGED <<config, req, conv, outbound, upstream, accChunks, delivered,
                   steps>>
    /\ UNCHANGED <<body, rest, buffer>>
    /\ UNCHANGED <<cfgVars, fnVars, conVars, rbVars>>

\* The lazy body ends: to_bytes returns and the converter goes on
ConvertEnd ==
    /\ reqPc = "converting"
    /\ rest = <<>>
    /\ ssePc' = "closed"
    /\ IF resp[1].body.kind = "stream"
       THEN UNCHANGED <<acc, events>>
       ELSE /\ acc' = acc \o EncodeEvents(FlushBuffer(buffer))
            /\ events' = events \o FlushBuffer(buffer)
    /\ FinishConversion(Some(RawBytes(acc')))
    /\ UNCHANGED <<config, req, conv, outbound, upstream, accChunks, delivered,
                   steps>>
    /\ UNCHANGED <<body, rest, buffer, sseErr>>
    /\ UNCHANGED <<cfgVars, fnVars, conVars, rbVars>>

\* Ok(result): the response goes to the caller; a full body with it
Return ==
    /\ \/ reqPc = "transcoded" /\ ~NeedsConversion
       \/ reqPc = "finished"
    /\ steps' = Append(steps, "Return")
    /\ result' = Some(Okay(resp[1]))
    /\ IF resp[1].body.kind = "full"
       THEN /\ reqPc' = "done"
            /\ delivered' = resp[1].body.bytes
       ELSE /\ reqPc' = "returned"
            /\ UNCHANGED delivered
    /\ UNCHANGED <<config, req, conv, outbound, upstream, resp, acc, accChunks,
                   failedAt>>
    /\ UNCHANGED <<sseVars, cfgVars, fnVars, conVars, rbVars>>

\* The caller's connection polls the lazy body of the returned response
ClientPoll ==
    /\ reqPc = "returned"
    /\ rest # <<>>
    /\ \E n \in 1..Len(rest) :
          LET chunk == SubSeq(rest, 1, n)
              r == FeedChunk(buffer, chunk)
          IN  /\ rest' = SubSeq(rest, n + 1, Len(rest))
              /\ IF resp[1].body.kind = "stream"
                 THEN /\ delivered' = RawBytes(delivered.text \o chunk)
                      /\ UNCHANGED <<buffer, events>>
                 ELSE /\ delivered' =
                            RawBytes(delivered.text \o EncodeEvents(r.yielded))
                      /\ buffer' = r.buffer
                      /\ events' = events \o r.yielded
    /\ UNCHANGED <<reqPc, config, req, conv, outbound, upstream, resp, result,
                   acc, accChunks, steps, failedAt>>
    /\ UNCHANGED <<body, ssePc, sseErr>>
    /\ UNCHANGED <<cfgVars, fnVars, conVars, rbVars>>

\* What was delivered, and the events the framer yields after its loop
DeliveredAndFlushed ==
    RawBytes(delivered.text \o EncodeEvents(FlushBuffer(buffer)))

\* The upstream read fails after the response was returned: a relayed
\* stream ends with the error, the framer breaks and flushes
ClientReadError ==
    /\ reqPc = "returned"
    /\ reqPc' = "done"
    /\ ssePc' = "closed"
    /\ sseErr' = TRUE
    /\ IF resp[1].body.kind = "stream"
       THEN UNCHANGED <<delivered, events>>
       ELSE /\ delivered' = DeliveredAndFlushed
            /\ events' = events \o FlushBuffer(buffer)
    /\ UNCHANGED <<config, req, conv, outbound, upstream, resp, result, acc,
                   accChunks, steps, failedAt>>
    /\ UNCHANGED <<body, rest, buffer>>
    /\ UNCHANGED <<cfgVars, fnVars, conVars, rbVars>>

\* The upstream body ends after the response was returned
ClientEnd ==
    /\ reqPc = "returned"
    /\ rest = <<>>
    /\ reqPc' = "done"
    /\ ssePc' = "closed"
    /\ IF resp[1].body.kind = "stream"
       THEN UNCHANGED <<delivered, events>>
       ELSE /\ delivered' = DeliveredAndFlushed
            /\ events' = events \o FlushBuffer(buffer)
    /\ UNCHANGED <<config, req, conv, outbound, upstream, resp, result, acc,
                   accChunks, steps, failedAt>>
    /\ UNCHANGED <<body, rest, buffer, sseErr>>
    /\ UNCHANGED <<cfgVars, fnVars, conVars, rbVars>>

Next ==
    \/ ReadRequestBody
    \/ ConvertRequest
    \/ Forward
    \/ ForwardLate
    \/ Transcode
    \/ ConvertResponse
    \/ ConvertRead
    \/ ConvertReadError
    \/ ConvertEnd
    \/ Return
    \/ ClientPoll
    \/ ClientReadError
    \/ ClientEnd

Spec == Init /\ [][Next]_vars

-----------------------------------------------------------------------------
(* The pure functions of service.rs, each called once on an argument drawn *)
(* from a bounded set.                                                     *)

\* How many white-space characters a line has at either end
MaxWs == 2

\* Runs of the white space a line of str::lines() can hold
RECURSIVE WsRuns(_)
WsRuns(n) ==
    IF n = 0 THEN {<<>>}
    ELSE WsRuns(n - 1)
         \cup {r \o <<w>> : r \in WsRuns(n - 1), w \in WhiteSpace \ {LF}}

\* The lines of an upstream event stream, without the white space around
LineCores ==
    { <<>>,
      DataPrefix,
      DataSpacePrefix,
      DataSpacePrefix \o DoneSentinel,
      DataPrefix \o DoneSentinel,
      DataSpacePrefix \o <<SP>> \o DoneSentinel,
      DataSpacePrefix \o <<"x">>,
      DataPrefix \o <<"x">>,
      DataSpacePrefix \o <<"x", SP, "y">>,
      <<"x">>,
      <<":", SP, "keep-alive">>,
      <<"event", ":", SP, "message">>,
      <<"event", ":", "message">>,
      <<"id", ":", SP, "7">>,
      <<"retry", ":", SP, "3000">> }

SseLines ==
    {pre \o core \o post :
        pre \in WsRuns(MaxWs), core \in LineCores, post \in WsRuns(MaxWs)}

\* How many lines an upstream event stream has
MaxChunks == 3

\* The texts of up to n lines, each with its line feed
RECURSIVE StreamTexts(_, _)
StreamTexts(lines, n) ==
    IF n = 0 THEN {<<>>}
    ELSE StreamTexts(lines, n - 1)
         \cup {t \o line \o <<LF>> : t \in StreamTexts(lines, n - 1),
                                      line \in lines}

\* The lines of an upstream Chat Completions stream
ChatStreamLines ==
    {DataSpacePrefix \o <<doc>> :
        doc \in {"{chat-first}", "{chat-delta}", "{chat-stop}",
                 "{chat-delta-stop}", "{chat-null}", "{other}"}}
    \cup { DataSpacePrefix \o DoneSentinel,
           <<>>,
           DataPrefix \o <<"{chat-delta}">>,
           DataSpacePrefix \o <<"oops">>,
           <<":", SP, "keep-alive">> }

\* The lines of an upstream streamGenerateContent stream
GeminiStreamLines ==
    {DataSpacePrefix \o <<doc>> :
        doc \in {"{gem-text}", "{gem-stop}", "{gem-stop-usage}", "{gem-null}",
                 "{gem-empty}", "{gem-usage}", "{other}"}}
    \cup { DataSpacePrefix \o DoneSentinel,
           <<>>,
           DataPrefix \o <<"{gem-stop}">>,
           DataSpacePrefix \o <<"oops">> }

\* How many items the input array of a request has
MaxItems == 3

\* The items of an input array: messages with a role and a content, with
\* one of the two, with a role that is no string, and an item that is no
\* object
InputItems ==
    { JObj([role |-> JStr(T_user), content |-> JStr(T_hi)]),
      JObj([role |-> JStr(<<"system">>), content |-> JStr(<<"be", SP, "brief">>)]),
      JObj([role |-> JStr(<<"System">>),
            content |-> JArr(<<JObj([text |-> JStr(<<"no", SP>>)]),
                               JObj([content |-> JStr(<<"lists">>)])>>)]),
      JObj([role |-> JStr(<<"assistant">>),
            content |-> JArr(<<JObj([text |-> JStr(T_hi)])>>)]),
      JObj([content |-> JStr(<<"plain">>)]),
      JObj([role |-> JStr(<<"developer">>)]),
      JObj([role |-> JNum(5), content |-> JNum(6)]),
      JStr(<<"loose">>) }

RECURSIVE InputArrays(_)
InputArrays(n) ==
    IF n = 0 THEN {<<>>}
    ELSE InputArrays(n - 1)
         \cup {a \o <<item>> : a \in InputArrays(n - 1), item \in InputItems}

\* The members of a request next to its input
RequestMembers ==
    { [model |-> JStr(<<"o3">>)],
      [model |-> JStr(<<"o3", "-mini">>), stream |-> JBool(TRUE),
       temperature |-> JNum(1), max_completion_tokens |-> JNum(64),
       max_tokens |-> JNum(9), top_p |-> JNum(1)] }

\* The Responses requests: with an input array, with an input that is a
\* text, and without input
ResponsesRequests ==
    {JObj(("input" :> JArr(a)) @@ members) :
        a \in InputArrays(MaxItems), members \in RequestMembers}
    \cup {JObj(("input" :> JStr(T_hi)) @@ members) : members \in RequestMembers}
    \cup {JObj(members) : members \in RequestMembers}

\* The calls: a function and its argument
\* Endpoints with and without a timeout and retry settings of their own
ResolutionEndpoints ==
    {[ProxyConfigDefault.endpoints[2] EXCEPT !.timeout = timeout,
                                             !.retry = retry] :
        timeout \in {None, Some(5)},
        retry \in {None, Some(Retry(5, 200, 2000, F64(15)))}}

GlobalRetries ==
    {None, Some(RetrySettingsDefault), Some(Retry(2, 50, 500, F64(10)))}

GlobalTimeouts == {None, Some(30), Some(60)}

\* A route of the Google provider whose path has "/v1/responses" after a
\* "/responses"
GoogleV1ResponsesRoute ==
    DefaultEndpoint(ApiProvider("google")
                        \o <<"responses", "/", "v1", "/", "responses">>,
                    ApiKeyInfo \o GoogleModels,
                    <<"POST">>, "Sse", CommonRequestHeaders,
                    CommonResponseHeaders)

FnCalls ==
    {[fn |-> "parse_sse_line", arg |-> line] : line \in SseLines}
    \cup {[fn |-> "convert_chat_completions_to_responses_format",
           arg |-> RawBytes(text)] :
            text \in StreamTexts(ChatStreamLines, MaxChunks)}
    \cup {[fn |-> "convert_gemini_to_responses_format",
           arg |-> RawBytes(text)] :
            text \in StreamTexts(GeminiStreamLines, MaxChunks)}
    \cup {[fn |-> "convert_responses_to_chat_completions", arg |-> request] :
            request \in ResponsesRequests}
    \cup {[fn |-> "convert_responses_to_gemini_request", arg |-> request] :
            request \in ResponsesRequests}
    \cup {[fn |-> "handle_o3_model_conversion",
           arg |-> [config |-> route, body |-> text]] :
            route \in DispatchRoutes,
            text \in RequestBodies \cup {<<"{o3-number}">>}}
    \cup {[fn |-> "request_conversions",
           arg |-> [config |-> route, body |-> text]] :
            route \in DispatchRoutes \cup {GoogleV1ResponsesRoute},
            text \in RequestBodies}
    \cup {[fn |-> "get_retry_config",
           arg |-> [self |-> endpoint, global_retry |-> global]] :
            endpoint \in ResolutionEndpoints, global \in GlobalRetries}
    \cup {[fn |-> "get_timeout",
           arg |-> [self |-> endpoint, global_timeout |-> global]] :
            endpoint \in ResolutionEndpoints, global \in GlobalTimeouts}

FnInit ==
    /\ fnPc = "ready"
    /\ fnIn \in FnCalls
    /\ fnOut = None
    /\ SseIdle
    /\ CfgIdle
    /\ ReqIdle
    /\ ConIdle
    /\ RbIdle

CallParseSseLine ==
    /\ fnPc = "ready"
    /\ fnIn.fn = "parse_sse_line"
    /\ fnOut' = parse_sse_line(fnIn.arg)
    /\ fnPc' = "done"
    /\ UNCHANGED fnIn
    /\ UNCHANGED <<sseVars, cfgVars, reqVars, conVars, rbVars>>

\* The streaming branch of convert_chat_completions_to_responses_format on
\* a response whose body was read
CallChatToResponses ==
    /\ fnPc = "ready"
    /\ fnIn.fn = "convert_chat_completions_to_responses_format"
    /\ fnOut' = convert_chat_completions_to_responses_format(Some(fnIn.arg), TRUE)
    /\ fnPc' = "done"
    /\ UNCHANGED fnIn
    /\ UNCHANGED <<sseVars, cfgVars, reqVars, conVars, rbVars>>

\* The streaming branch of convert_gemini_to_responses_format on a response
\* whose body was read
CallGeminiToResponses ==
    /\ fnPc = "ready"
    /\ fnIn.fn = "convert_gemini_to_responses_format"
    /\ fnOut' = convert_gemini_to_responses_format(Some(fnIn.arg))
    /\ fnPc' = "done"
    /\ UNCHANGED fnIn
    /\ UNCHANGED <<sseVars, cfgVars, reqVars, conVars, rbVars>>

CallResponsesToChat ==
    /\ fnPc = "ready"
    /\ fnIn.fn = "convert_responses_to_chat_completions"
    /\ fnOut' = convert_responses_to_chat_completions(fnIn.arg)
    /\ fnPc' = "done"
    /\ UNCHANGED fnIn
    /\ UNCHANGED <<sseVars, cfgVars, reqVars, conVars, rbVars>>

CallResponsesToGemini ==
    /\ fnPc = "ready"
    /\ fnIn.fn = "convert_responses_to_gemini_request"
    /\ fnOut' = convert_responses_to_gemini_request(fnIn.arg)
    /\ fnPc' = "done"
    /\ UNCHANGED fnIn
    /\ UNCHANGED <<sseVars, cfgVars, reqVars, conVars, rbVars>>

CallO3ModelConversion ==
    /\ fnPc = "ready"
    /\ fnIn.fn = "handle_o3_model_conversion"
    /\ fnOut' = handle_o3_model_conversion(fnIn.arg.config,
                                            RawBytes(fnIn.arg.body))
    /\ fnPc' = "done"
    /\ UNCHANGED fnIn
    /\ UNCHANGED <<sseVars, cfgVars, reqVars, conVars, rbVars>>

\* The request-side conversions of handle_proxy_request
CallRequestConversions ==
    /\ fnPc = "ready"
    /\ fnIn.fn = "request_conversions"
    /\ fnOut' = RequestConversions(fnIn.arg.config, RawBytes(fnIn.arg.body))
    /\ fnPc' = "done"
    /\ UNCHANGED fnIn
    /\ UNCHANGED <<sseVars, cfgVars, reqVars, conVars, rbVars>>

CallGetRetryConfig ==
    /\ fnPc = "ready"
    /\ fnIn.fn = "get_retry_config"
    /\ fnOut' = get_retry_config(fnIn.arg.self, fnIn.arg.global_retry)
    /\ fnPc' = "done"
    /\ UNCHANGED fnIn
    /\ UNCHANGED <<sseVars, cfgVars, reqVars, conVars, rbVars>>

CallGetTimeout ==
    /\ fnPc = "ready"
    /\ fnIn.fn = "get_timeout"
    /\ fnOut' = get_timeout(fnIn.arg.self, fnIn.arg.global_timeout)
    /\ fnPc' = "done"
    /\ UNCHANGED fnIn
    /\ UNCHANGED <<sseVars, cfgVars, reqVars, conVars, rbVars>>

FnNext ==
    \/ CallParseSseLine
    \/ CallChatToResponses
    \/ CallGeminiToResponses
    \/ CallResponsesToChat
    \/ CallResponsesToGemini
    \/ CallO3ModelConversion
    \/ CallRequestConversions
    \/ CallGetRetryConfig
    \/ CallGetTimeout

SpecFn == FnInit /\ [][FnNext]_vars

-----------------------------------------------------------------------------
(* Requests handled at the same time.  The router holds one closure per    *)
(* route with its EndpointConfig; a request is handled by a task of its    *)
(* own.  The EndpointConfig values in memory are cells, named by their     *)
(* owner: a route (the closure) or a task (the handler's argument).        *)

TaskIds == {"task1", "task2"}

RouteIds == {"route1", "route2"}

\* How many requests one task handles, one after the other
MaxRequests == 2

\* The configured routes: the OpenAI responses route of the default
\* configuration, and a responses route of the Google provider
ConfiguredRoutes ==
    [r \in RouteIds |->
        IF r = "route1" THEN ProxyConfigDefault.endpoints[2]
        ELSE DefaultEndpoint(ApiProvider("google") \o <<"v1beta", "/", "responses">>,
                             ApiKeyInfo \o GoogleModels \o <<"/">>,
                             <<"POST">>, "Sse", CommonRequestHeaders,
                             CommonResponseHeaders)]

\* The bodies of the requests
TaskBodies == {<<"{o3-stream}">>, <<"{gemini-stream}">>, <<"hello">>}

\* A handler that works on the EndpointConfig of the closure itself
SharedConfig(task, route) == route

\* The cell that handle_proxy_request works on: `config: EndpointConfig`
\* is passed by value (the closure is cloned and its endpoint_clone moved
\* into the call), so the cell is the task's own
OwnedConfig(task, route) == task

ConInit ==
    /\ cells = [c \in RouteIds \cup TaskIds |->
                  IF c \in RouteIds THEN Some(ConfiguredRoutes[c]) ELSE None]
    /\ tasks = [t \in TaskIds |->
                  [pc |-> "idle", route |-> "route1", request |-> <<>>,
                   seen |-> None, o3 |-> None, google |-> None,
                   url |-> <<>>, served |-> 0]]
    /\ SseIdle
    /\ CfgIdle
    /\ ReqIdle
    /\ FnIdle
    /\ RbIdle

\* The router calls the handler of a route for a request: the task gets
\* the EndpointConfig of the closure
Accept(t) ==
    /\ tasks[t].pc = "idle"
    /\ tasks[t].served < MaxRequests
    /\ \E r \in RouteIds, b \in TaskBodies :
          /\ cells' = [cells EXCEPT ![OwnedConfig(t, r)] = cells[r]]
          /\ tasks' = [tasks EXCEPT ![t] =
                          [@ EXCEPT !.pc = "accepted", !.route = r,
                                    !.request = b, !.seen = cells[r],
                                    !.o3 = None, !.google = None,
                                    !.url = <<>>]]
    /\ UNCHANGED <<sseVars, cfgVars, reqVars, fnVars, rbVars>>

\* handle_o3_model_conversion on the config and the body of the task
TaskConvertO3(t) ==
    /\ tasks[t].pc = "accepted"
    /\ LET cell == OwnedConfig(t, tasks[t].route)
           o3 == handle_o3_model_conversion(cells[cell][1],
                                            RawBytes(tasks[t].request))
       IN  /\ cells' = [cells EXCEPT ![cell] = Some(o3.config)]
           /\ tasks' = [tasks EXCEPT ![t] =
                           [@ EXCEPT !.pc = "after_o3", !.o3 = Some(o3)]]
    /\ UNCHANGED <<sseVars, cfgVars, reqVars, fnVars, rbVars>>

\* handle_google_responses_conversion on what the first converter returned
TaskConvertGoogle(t) ==
    /\ tasks[t].pc = "after_o3"
    /\ LET cell == OwnedConfig(t, tasks[t].route)
           google == handle_google_responses_conversion(cells[cell][1],
                                                        tasks[t].o3[1].body)
       IN  /\ cells' = [cells EXCEPT ![cell] = Some(google.config)]
           /\ tasks' = [tasks EXCEPT ![t] =
                           [@ EXCEPT !.pc = "converted",
                                     !.google = Some(google)]]
    /\ UNCHANGED <<sseVars, cfgVars, reqVars, fnVars, rbVars>>

\* client.request(method, &final_config.target_url)
TaskSend(t) ==
    /\ tasks[t].pc = "converted"
    /\ tasks' = [tasks EXCEPT ![t] =
                    [@ EXCEPT !.pc = "sent",
                              !.url = cells[OwnedConfig(t, tasks[t].route)][1]
                                          .target_url]]
    /\ UNCHANGED cells
    /\ UNCHANGED <<sseVars, cfgVars, reqVars, fnVars, rbVars>>

\* The handler returns; the task is free for a later request
TaskReturn(t) ==
    /\ tasks[t].pc = "sent"
    /\ tasks' = [tasks EXCEPT ![t] =
                    [@ EXCEPT !.pc = "idle", !.served = @ + 1]]
    /\ UNCHANGED cells
    /\ UNCHANGED <<sseVars, cfgVars, reqVars, fnVars, rbVars>>

ConNext ==
    \E t \in TaskIds :
        \/ Accept(t)
        \/ TaskConvertO3(t)
        \/ TaskConvertGoogle(t)
        \/ TaskSend(t)
        \/ TaskReturn(t)

SpecTasks == ConInit /\ [][ConNext]_vars

-----------------------------------------------------------------------------
(* retry_with_backoff (src/api/src/error.rs).  The operation is called     *)
(* once per attempt and returns Ok or a ProxyError; a Duration is a number *)
(* of milliseconds.                                                        *)

\* The attempts of the policies of the model go up to this many
MaxAttempts == 3

\* ProxyError
NetworkError == [e |-> "NetworkError"]

TimeoutError == [e |-> "TimeoutError"]

UpstreamError(status) == [e |-> "UpstreamError", status |-> status]

InvalidRequest == [e |-> "InvalidRequest"]

ConfigurationError == [e |-> "ConfigurationError"]

ConversionError == [e |-> "ConversionError"]

ProxyErrors ==
    { NetworkError, TimeoutError, InvalidRequest, ConfigurationError,
      ConversionError }
    \cup {UpstreamError(status) : status \in {302, 404, 429, 503}}

\* What operation().await comes back with
OpOutcomes ==
    {[ok |-> TRUE, value |-> "response"]}
    \cup {[ok |-> FALSE, error |-> e] : e \in ProxyErrors}

\* The retry settings of the calls: the default ones, ones whose delay
\* reaches the maximum, ones with multiplier 1.0 and ones with a NaN
\* multiplier, which RetrySettings::validate lets pass
RbSettings ==
    {Retry(a, 100, 10000, F64(20)) : a \in 0..MaxAttempts}
    \cup {Retry(a, 100, 120, F64(15)) : a \in 1..MaxAttempts}
    \cup { Retry(MaxAttempts, 100, 100, F64(10)),
           Retry(MaxAttempts, 100, 10000, NaN) }

\* StatusCode::is_client_error and is_server_error
is_client_error(status) == 400 <= status /\ status < 500

is_server_error(status) == 500 <= status /\ status < 600

\* is_retriable_error
is_retriable_error(error) ==
    CASE error.e = "NetworkError" -> TRUE
      [] error.e = "TimeoutError" -> TRUE
      [] error.e = "UpstreamError" ->
            is_server_error(error.status) \/ error.status = 429
      [] OTHER -> FALSE

\* The test of retry_with_backoff that returns the error at once: an
\* UpstreamError of a client error status other than 429
ReturnsAtOnce(error) ==
    /\ error.e = "UpstreamError"
    /\ is_client_error(error.status)
    /\ error.status # 429

\* (millis as f64 * multiplier) as u64: the product without its fraction;
\* the cast of NaN is 0
MulAsU64(millis, multiplier) ==
    IF multiplier.nan THEN 0 ELSE (millis * multiplier.v) \div 10

\* std::cmp::min
Min(a, b) == IF a <= b THEN a ELSE b

\* The delay after a sleep
NextDelay(d, cfg) ==
    DurationFromMillis(Min(MulAsU64(d, cfg.backoff_multiplier), cfg.max_delay))

RbInit ==
    /\ rbPc = "loop"
    /\ rbConfig \in {RetryConfigFrom(settings) : settings \in RbSettings}
    /\ attempt = 1
    /\ delay = rbConfig.base_delay
    /\ history = <<>>
    /\ slept = <<>>
    /\ rbResult = None
    /\ SseIdle
    /\ CfgIdle
    /\ ReqIdle
    /\ FnIdle
    /\ ConIdle

\* One pass of the for loop up to its return or its sleep
RbAttempt ==
    /\ rbPc = "loop"
    /\ attempt <= rbConfig.max_attempts
    /\ \E outcome \in OpOutcomes :
          /\ history' = Append(history, outcome)
          /\ IF outcome.ok
             THEN /\ rbResult' = Some(outcome)
                  /\ rbPc' = "returned"
             ELSE IF ReturnsAtOnce(outcome.error)
             THEN /\ rbResult' = Some(outcome)
                  /\ rbPc' = "returned"
             ELSE IF attempt < rbConfig.max_attempts
             THEN /\ rbPc' = "sleeping"
                  /\ UNCHANGED rbResult
             ELSE /\ rbResult' = Some(outcome)
                  /\ rbPc' = "returned"
    /\ UNCHANGED <<rbConfig, attempt, delay, slept>>
    /\ UNCHANGED <<sseVars, cfgVars, reqVars, fnVars, conVars>>

\* sleep(delay).await, the new delay, and the next value of the range
RbSleep ==
    /\ rbPc = "sleeping"
    /\ slept' = Append(slept, delay)
    /\ delay' = NextDelay(delay, rbConfig)
    /\ attempt' = attempt + 1
    /\ rbPc' = "loop"
    /\ UNCHANGED <<rbConfig, history, rbResult>>
    /\ UNCHANGED <<sseVars, cfgVars, reqVars, fnVars, conVars>>

\* The range 1..=max_attempts is exhausted: unreachable!() panics
RbUnreachable ==
    /\ rbPc = "loop"
    /\ attempt > rbConfig.max_attempts
    /\ rbPc' = "panicked"
    /\ UNCHANGED <<rbConfig, attempt, delay, history, slept, rbResult>>
    /\ UNCHANGED <<sseVars, cfgVars, reqVars, fnVars, conVars>>

RbNext == RbAttempt \/ RbSleep \/ RbUnreachable

SpecRetry == RbInit /\ [][RbNext]_vars

-----------------------------------------------------------------------------
(* C2: handle_proxy_request runs its steps in the order ConvertRequest,    *)
(* Forward, TranscodeResponse, ConvertResponse, Return, each at most once, *)
(* and the first step that fails is the last step that runs: nothing is    *)
(* sent after a failure on the request side, and nothing is transcoded or  *)
(* converted after a Forward failure (a network error or a status that is  *)
(* not 2xx).                                                               *)

StepOrder ==
    <<"ConvertRequest", "Forward", "TranscodeResponse", "ConvertResponse",
      "Return">>

StepRank(step) == CHOOSE i \in 1..Len(StepOrder) : StepOrder[i] = step

C2_StepsInOrderFirstFailureTerminal ==
    /\ \A i, j \in 1..Len(steps) :
          i < j => StepRank(steps[i]) < StepRank(steps[j])
    /\ failedAt # "none" =>
          /\ result # None /\ ~result[1].ok
          /\ reqPc = "done"
          /\ IF failedAt = "ReadBody" THEN steps = <<>>
             ELSE steps # <<>> /\ steps[Len(steps)] = failedAt
    /\ failedAt \in {"ReadBody", "ConvertRequest"} => outbound = <<>>
    /\ (upstream # None /\ upstream[1].status \notin 200..299) =>
          failedAt = "Forward"
    /\ failedAt = "Forward" =>
          /\ resp = None
          /\ rest = body
          /\ acc = <<>>
          /\ delivered = NoBytes
    /\ (result # None /\ result[1].ok) =>
          /\ SelectSeq(steps, LAMBDA st : st # "ConvertResponse")
                = <<"ConvertRequest", "Forward", "TranscodeResponse", "Return">>
          /\ Len(outbound) = 1

\* A 404 with a body came back: Forward failed after its request went out
C2_Witness ==
    /\ failedAt = "Forward"
    /\ steps = <<"ConvertRequest", "Forward">>
    /\ Len(outbound) = 1
    /\ upstream # None
    /\ upstream[1].status = 404
    /\ body = ChatSse

-----------------------------------------------------------------------------
(* C3: when the upstream answers with a status that is not 2xx, whatever   *)
(* the response type of the route and whatever the upstream body, the      *)
(* caller gets 502 with the message "Upstream server error", and no part   *)
(* of the upstream body reaches the caller.                                *)

-----------------------------------------------------------------------------
(* C4: on a route of type Sse, or of type Stream with an upstream          *)
(* content-type text/event-stream, also when a converter fired for a       *)
(* request that said stream: true, the output reaches the caller           *)
(* incrementally: in no state has a whole-body read collected the entire   *)
(* upstream body, arrived in two chunks or more, before anything was       *)
(* handed to the caller.                                                   *)

StreamingMode ==
    /\ conv # None
    /\ upstream # None
    /\ \/ conv[1].final_config.response_type = "Sse"
       \/ /\ conv[1].final_config.response_type = "Stream"
          /\ HeaderGet(upstream[1].headers, ContentType) # None
          /\ Contains(HeaderGet(upstream[1].headers, ContentType)[1],
                      TextEventStream)

C4_StreamingIsIncremental ==
    StreamingMode =>
        ~(/\ accChunks >= 2
          /\ rest = <<>>
          /\ acc # <<>>
          /\ delivered = NoBytes)

-----------------------------------------------------------------------------
(* C8: on a route whose path contains "llm-proxy" the outbound request has *)
(* exactly one authorization header, "Bearer <service credential>",        *)
(* whatever the caller sent and whatever custom_headers holds.             *)

Authorization == <<"authorization">>

C8_LlmProxyHasOneAuthorization ==
    \A k \in 1..Len(outbound) :
        Contains(config.path, LlmProxy) =>
            HeaderGetAll(outbound[k].headers, Authorization)
                = <<<<Authorization, Bearer(AMP_API_KEY)>>>>

-----------------------------------------------------------------------------
(* C9: when a custom_headers name is also a forward_request_headers name   *)
(* that the inbound request has, the outbound request has one value for    *)
(* that header, the custom one.                                            *)

\* The custom header entries whose name is forwarded from the inbound request
OverriddenHeaders(final_config, inbound) ==
    {e \in final_config.custom_headers :
        \E i \in 1..Len(final_config.forward_request_headers) :
            /\ final_config.forward_request_headers[i] = e[1]
            /\ HeaderGet(inbound, e[1]) # None}

C9_CustomHeaderOverridesForwarded ==
    \A k \in 1..Len(outbound) :
        \A e \in OverriddenHeaders(conv[1].final_config, req.headers) :
            HeaderGetAll(outbound[k].headers, e[1])
                = <<<<HeaderName(e[1]), e[2]>>>>

-----------------------------------------------------------------------------
(* C10: a forward_request_headers name that is no custom_headers name and  *)
(* not the authorization of an llm-proxy route is on the outbound request  *)
(* exactly when it is on the inbound request, with the inbound value; a    *)
(* header the inbound request lacks never goes out with an empty value.    *)

\* The forwarded names the claim is about
PlainForwardedNames(final_config) ==
    {final_config.forward_request_headers[i] :
        i \in {j \in 1..Len(final_config.forward_request_headers) :
                LET n == final_config.forward_request_headers[j]
                IN  /\ \A e \in final_config.custom_headers :
                          HeaderName(e[1]) # HeaderName(n)
                    /\ ~(/\ Contains(final_config.path, LlmProxy)
                         /\ HeaderName(n) = Authorization)}}

-----------------------------------------------------------------------------
(* C5: a configuration that fails validation is not replaced by the        *)
(* built-in default: the service never serves with ProxyConfig::default()  *)
(* when the file held a configuration that validate rejected.              *)
C5_RejectedConfigNotDefaulted ==
    (cfgPc = "serving" /\ file.kind = "config"
       /\ ~ProxyConfig_validate(file.config).ok)
    => proxy_config # Some(ProxyConfigDefault)

\* What the claim of C6 requires of a retry policy
RetryWithinBounds(r) ==
    /\ r.max_attempts \in 1..10
    /\ r.base_delay_ms <= r.max_delay_ms
    /\ r.max_delay_ms <= 600000
    /\ ~r.backoff_multiplier.nan
    /\ r.backoff_multiplier.v >= 10
    /\ r.backoff_multiplier.v <= 100

\* What the claim of C6 requires of a configuration
ConfigWellFormed(c) ==
    /\ c.endpoints # <<>>
    /\ \A i \in 1..Len(c.endpoints) :
          LET e == c.endpoints[i]
          IN  /\ e.path # <<>>
              /\ Head(e.path) = "/"
              /\ \A j \in 1..Len(c.endpoints) :
                    j # i => c.endpoints[j].path # e.path
              /\ Len(e.target_url) >= 2
              /\ LowerWord(e.target_url[1]) \in {"http", "https"}
              /\ e.target_url[2] = "://"
              /\ \E m \in HttpMethods : ToUppercase(e.method) = <<m>>
              /\ e.timeout # None => e.timeout[1] \in 1..3600
              /\ e.retry # None => RetryWithinBounds(e.retry[1])
    /\ c.global_timeout # None => c.global_timeout[1] \in 1..3600
    /\ c.global_retry # None => RetryWithinBounds(c.global_retry[1])

(* C6: validate accepts only well-formed configurations: whenever          *)
(* load_from_file returned the file's configuration, the endpoint list is  *)
(* non-empty, every path starts with '/' and is unique, every URL is http  *)
(* or https, every method is one of the seven, and every timeout and retry *)
(* policy present is within its bounds.                                    *)
C6_ValidateAcceptsOnlyWellFormed ==
    (cfgPc # "boot" /\ cfgPc # "idle" /\ loaded[1].ok)
    => ConfigWellFormed(loaded[1].config)

\* The (path, method) pairs of the enabled endpoints of a configuration
EnabledPairs(c) ==
    { pm \in {<<c.endpoints[i].path, m>> : i \in 1..Len(c.endpoints),
                                            m \in HttpMethods} :
        \E i \in 1..Len(c.endpoints) :
            /\ c.endpoints[i].enabled
            /\ c.endpoints[i].path = pm[1]
            /\ ToUppercase(c.endpoints[i].method) = <<pm[2]>> }

\* The (path, method) pairs the router serves, among the paths of a
\* configuration
ServedPairs(routes, c) ==
    { pm \in {<<c.endpoints[i].path, m>> : i \in 1..Len(c.endpoints),
                                            m \in HttpMethods} :
        Serves(routes, pm[1], pm[2]) }

(* C7: for a configuration that validation accepted, the router serves     *)
(* exactly the (path, method) pairs of its enabled endpoints.              *)
C7_RouterServesEnabledEndpoints ==
    (cfgPc = "serving" /\ loaded[1].ok)
    => ServedPairs(router, loaded[1].config) = EnabledPairs(loaded[1].config)

-----------------------------------------------------------------------------
(* C1: chunk-boundary invariance.  When the upstream stream has ended      *)
(* without a read error, the framer has yielded the same payloads, in the  *)
(* same order, as it yields when the whole body arrives as one chunk,      *)
(* however the body was cut into chunks.                                   *)
C1_ChunkBoundaryInvariance ==
    (ssePc = "closed" /\ ~sseErr) => events = OneChunkOutput(body)

-----------------------------------------------------------------------------
(* C19: parse_sse_line maps a line that is `data: [DONE]` or `data:[DONE]` *)
(* with any white space around it to the payload [DONE], with no white     *)
(* space added or kept.                                                    *)

\* The lines the claim is about
DoneLines ==
    {pre \o form \o post :
        pre \in WsRuns(MaxWs),
        form \in {<<"d", "a", "t", "a", ":", " ", "[DONE]">>,
                  <<"d", "a", "t", "a", ":", "[DONE]">>},
        post \in WsRuns(MaxWs)}

C19_DoneSentinelVerbatim ==
    (fnPc = "done" /\ fnIn.fn = "parse_sse_line" /\ fnIn.arg \in DoneLines) =>
        fnOut = Some(<<"[DONE]">>)

\* `data:[DONE]` after a space and before a tab and a carriage return
C19_Witness ==
    /\ fnPc = "done"
    /\ fnIn.fn = "parse_sse_line"
    /\ fnIn.arg = <<" ", "d", "a", "t", "a", ":", "[DONE]", "\t", "\r">>
    /\ fnOut = Some(<<"[DONE]">>)

-----------------------------------------------------------------------------
(* C20: a line that is an `event:`, `id:` or `retry:` field of the         *)
(* upstream stream makes the framer emit no event, so no event name, id or *)
(* retry directive reaches the caller.                                     *)

\* Whether the first thing on the line after its white space is the field name
IsField(line, name) ==
    \E i \in 1..Len(line) :
        /\ \A j \in 1..(i - 1) : line[j] \in WhiteSpace
        /\ i + 1 <= Len(line)
        /\ line[i] = name
        /\ line[i + 1] = ":"

C20_NonDataFieldsDiscarded ==
    (/\ fnPc = "done"
     /\ fnIn.fn = "parse_sse_line"
     /\ \E name \in {"event", "id", "retry"} : IsField(fnIn.arg, name)) =>
        fnOut = None

-----------------------------------------------------------------------------
(* C11: for a request on a route that a converter inspects (a path with    *)
(* "/v1/responses", or a path of the Google provider with "/responses")    *)
(* whose body cannot be parsed as JSON, the Dispatcher answers 400 and     *)
(* sends no outbound request.                                              *)

\* The routes whose request body a converter parses
InspectedRoute ==
    \/ Contains(config.path, <<"/", "v1", "/", "responses">>)
    \/ /\ Contains(config.path,
                   <<"/", "api", "/", "provider", "/", "google", "/">>)
       /\ Contains(config.path, <<"/", "responses">>)

\* The request bodies that hold no JSON document
UnparsableBody ==
    ~\E doc \in DOMAIN JsonDocs : Trim(req.body) = <<doc>>

-----------------------------------------------------------------------------
(* C18: when the upstream response on a route of type Json has a body that *)
(* is no valid JSON, the caller receives the raw upstream bytes with the   *)
(* status of the upstream, for a status that is not 2xx as well as for a   *)
(* 2xx one, and with the content-type text/plain.                          *)

\* The upstream bodies that hold no JSON document
UnparsableUpstreamBody ==
    ~\E doc \in DOMAIN JsonDocs : Trim(body) = <<doc>>

C18_NonJsonBodyKeepsStatusAsTextPlain ==
    (/\ config.response_type = "Json"
     /\ upstream # None
     /\ UnparsableUpstreamBody
     /\ reqPc = "done"
     /\ ~sseErr) =>
        /\ result # None
        /\ result[1].ok
        /\ result[1].response.status = upstream[1].status
        /\ result[1].response.body = FullBody(RawBytes(body))
        /\ HeaderGet(result[1].response.headers, ContentType)
              = Some(<<"text/plain", ";", SP, "charset=utf-8">>)

-----------------------------------------------------------------------------
(* The streams of the response-side converters, as the claims below read   *)
(* them.                                                                   *)

\* The lines of the stream that a streaming converter returned
ConvertedLines == fnOut.response.body.bytes.lines

\* Its events: the lines that are not empty
ClientEvents == SelectSeq(ConvertedLines, LAMBDA l : l.line # "empty")

\* The "type" of an event; the [DONE] line has none
EventType(event) ==
    IF event.line = "data" THEN event.value.o.type.s ELSE <<"[DONE]">>

\* The `data: ` lines of the upstream stream, without the prefix
UpstreamData ==
    LET data == SelectSeq(Lines(fnIn.arg.text),
                          LAMBDA l : StartsWith(l, <<"d", "a", "t", "a", ":", " ">>))
    IN  [i \in 1..Len(data) |-> SubSeq(data[i], 7, Len(data[i]))]

\* The JSON chunks among them
UpstreamChunks ==
    LET docs == SelectSeq(UpstreamData, LAMBDA d : FromStr(d) # None)
    IN  [i \in 1..Len(docs) |-> FromStr(docs[i])[1]]

\* How many events of a type the stream has
CountOf(type) ==
    Cardinality({i \in DOMAIN ClientEvents : EventType(ClientEvents[i]) = type})

-----------------------------------------------------------------------------
(* C12: in the stream that convert_gemini_to_responses_format produces for *)
(* a streaming request, response.created is emitted exactly once, for the  *)
(* first upstream chunk that carries candidates, and never again, however  *)
(* many later chunks carry candidates.                                     *)

C12_GeminiCreatedExactlyOnce ==
    (fnPc = "done" /\ fnIn.fn = "convert_gemini_to_responses_format") =>
        LET carrying == {i \in DOMAIN UpstreamChunks :
                            JGet(UpstreamChunks[i], "candidates") # None}
        IN  CountOf(<<"response.created">>) = IF carrying = {} THEN 0 ELSE 1

-----------------------------------------------------------------------------
(* C13: in the stream that convert_chat_completions_to_responses_format    *)
(* produces for a streaming request, response.created is emitted only for  *)
(* the first upstream chunk seen: at most once, and never after a          *)
(* response.output_text.delta or a response.completed was emitted.         *)

C13_ChatCreatedOnlyFirst ==
    (fnPc = "done"
     /\ fnIn.fn = "convert_chat_completions_to_responses_format") =>
        \A i \in DOMAIN ClientEvents :
            EventType(ClientEvents[i]) = <<"response.created">> =>
                \A j \in 1..(i - 1) :
                    EventType(ClientEvents[j]) \notin
                        {<<"response.created">>,
                         <<"response.output_text.delta">>,
                         <<"response.completed">>}

-----------------------------------------------------------------------------
(* C14: in a Chat Completions stream converted for a streaming request,    *)
(* each `data: ` chunk yields at most one client event, by the first rule  *)
(* that matches: the literal [DONE] is passed on as it is; a chunk with    *)
(* choices[0].delta.content yields response.output_text.delta with exactly *)
(* that content; a chunk with a choices[0].finish_reason that is not null  *)
(* yields response.completed; a chunk of a shape that is not recognized    *)
(* yields nothing.  The client events stand in the order of the chunks     *)
(* that produced them.                                                     *)

\* What an event says: its type, and the delta it carries
Said(type, delta) == [type |-> type, delta |-> delta]

\* choices[0] of a chunk, when it has one
ChoiceZero(chunk) ==
    IF /\ chunk.t = "obj"
       /\ "choices" \in DOMAIN chunk.o
       /\ chunk.o.choices.t = "arr"
       /\ chunk.o.choices.a # <<>>
    THEN <<chunk.o.choices.a[1]>>
    ELSE <<>>

\* Whether a value is an object with the member
HasMember(v, key) == v.t = "obj" /\ key \in DOMAIN v.o

\* The events the rules give for the text of one `data: ` line
RuleEvents(data) ==
    IF data = <<"[DONE]">> THEN <<Said(<<"[DONE]">>, JNull)>>
    ELSE IF FromStr(data) = None THEN <<>>
    ELSE LET chunk == FromStr(data)[1]
             choice == ChoiceZero(chunk)
         IN  IF /\ choice # <<>>
                /\ HasMember(choice[1], "delta")
                /\ HasMember(choice[1].o.delta, "content")
             THEN <<Said(<<"response.output_text.delta">>,
                         choice[1].o.delta.o.content)>>
             ELSE IF /\ choice # <<>>
                     /\ HasMember(choice[1], "finish_reason")
                     /\ choice[1].o.finish_reason # JNull
             THEN <<Said(<<"response.completed">>, JNull)>>
             ELSE IF HasMember(chunk, "id") /\ HasMember(chunk, "choices")
             THEN <<Said(<<"response.created">>, JNull)>>
             ELSE <<>>

\* The events the rules give for the lines from the i-th on
RECURSIVE RuleEventsFrom(_)
RuleEventsFrom(i) ==
    IF i > Len(UpstreamData) THEN <<>>
    ELSE RuleEvents(UpstreamData[i]) \o RuleEventsFrom(i + 1)

\* What the events of the converted stream say
ClientEventsSaid ==
    [i \in DOMAIN ClientEvents |->
        Said(EventType(ClientEvents[i]),
             IF EventType(ClientEvents[i]) = <<"response.output_text.delta">>
             THEN ClientEvents[i].value.o.delta
             ELSE JNull)]

C14_ChatChunkFirstMatchingRule ==
    (fnPc = "done"
     /\ fnIn.fn = "convert_chat_completions_to_responses_format") =>
        /\ fnOut.ok
        /\ ClientEventsSaid = RuleEventsFrom(1)

\* A chunk that has a content and a finish_reason, then an empty line and
\* the sentinel: one delta with that content, then [DONE]
C14_Witness ==
    /\ fnPc = "done"
    /\ fnIn.fn = "convert_chat_completions_to_responses_format"
    /\ fnIn.arg.text = <<"d", "a", "t", "a", ":", " ", "{chat-delta-stop}", LF,
                         LF,
                         "d", "a", "t", "a", ":", " ", "[DONE]", LF>>
    /\ ClientEventsSaid = <<Said(<<"response.output_text.delta">>,
                                 JStr(<<"bye">>)),
                            Said(<<"[DONE]">>, JNull)>>

-----------------------------------------------------------------------------
(* C15: for every upstream Gemini chunk of a streaming conversion: when    *)
(* candidates[0].finishReason is there and is not null, the chunk gives    *)
(* exactly one response.completed whose response.usage is the chunk's      *)
(* usageMetadata, after the response.output_text.delta of that chunk when  *)
(* it has one; when finishReason is missing or null, the chunk gives no    *)
(* response.completed.                                                     *)

\* candidates[0] of a chunk, when it has one
CandidateZero(chunk) ==
    IF /\ HasMember(chunk, "candidates")
       /\ chunk.o.candidates.t = "arr"
       /\ chunk.o.candidates.a # <<>>
    THEN <<chunk.o.candidates.a[1]>>
    ELSE <<>>

\* Whether the chunk says that the generation finished
Finished(chunk) ==
    /\ CandidateZero(chunk) # <<>>
    /\ HasMember(CandidateZero(chunk)[1], "finishReason")
    /\ CandidateZero(chunk)[1].o.finishReason.t # "null"

\* What a delta or a completed event tells: its type, and its usage
Told(type, usage) == [type |-> type, usage |-> usage]

\* The deltas and the completed events that the claim gives one chunk
DeltaAndCompleted(chunk) ==
    (IF extract_gemini_text_delta(chunk) # None
     THEN <<Told(<<"response.output_text.delta">>, JNull)>> ELSE <<>>)
    \o (IF Finished(chunk)
        THEN <<Told(<<"response.completed">>,
                    IF HasMember(chunk, "usageMetadata")
                    THEN chunk.o.usageMetadata ELSE JNull)>>
        ELSE <<>>)

RECURSIVE DeltaAndCompletedFrom(_)
DeltaAndCompletedFrom(i) ==
    IF i > Len(UpstreamChunks) THEN <<>>
    ELSE DeltaAndCompleted(UpstreamChunks[i]) \o DeltaAndCompletedFrom(i + 1)

\* The deltas and the completed events of the converted stream
ClientDeltaAndCompleted ==
    LET picked == SelectSeq(ClientEvents,
                     LAMBDA e : EventType(e) \in {<<"response.output_text.delta">>,
                                                  <<"response.completed">>})
    IN  [i \in DOMAIN picked |->
            Told(EventType(picked[i]),
                 IF EventType(picked[i]) = <<"response.completed">>
                 THEN picked[i].value.o.response.o.usage
                 ELSE JNull)]

C15_GeminiCompletedIffFinishReason ==
    (fnPc = "done" /\ fnIn.fn = "convert_gemini_to_responses_format") =>
        /\ fnOut.ok
        /\ ClientDeltaAndCompleted = DeltaAndCompletedFrom(1)

\* A chunk with a text and a finishReason of null, then a chunk with a
\* text, the finishReason STOP and a usageMetadata: two deltas, then one
\* completed event with that usage
C15_Witness ==
    /\ fnPc = "done"
    /\ fnIn.fn = "convert_gemini_to_responses_format"
    /\ fnIn.arg.text = <<"d", "a", "t", "a", ":", " ", "{gem-null}", LF,
                         "d", "a", "t", "a", ":", " ", "{gem-stop-usage}", LF>>
    /\ ClientDeltaAndCompleted =
          <<Told(<<"response.output_text.delta">>, JNull),
            Told(<<"response.output_text.delta">>, JNull),
            Told(<<"response.completed">>,
                 JObj([totalTokenCount |-> JNum(7)]))>>

-----------------------------------------------------------------------------
(* C16: for every Responses request, convert_responses_to_chat_completions *)
(* returns an object whose keys are among model, stream, max_tokens,       *)
(* temperature and messages, and never input or max_completion_tokens;     *)
(* model, stream and temperature are those of the request, max_tokens is   *)
(* the max_completion_tokens of the request, and messages has, in the      *)
(* order of the input, one {role, content} for each item of the input      *)
(* array that has a role and a content.                                    *)

\* The items of the input array of the request; none when there is no array
InputOf(request) ==
    IF HasMember(request, "input") /\ request.o.input.t = "arr"
    THEN request.o.input.a
    ELSE <<>>

\* The items that have a role (a string) and a content
MessageItems(request) ==
    SelectSeq(InputOf(request),
              LAMBDA item : /\ HasMember(item, "role")
                            /\ item.o.role.t = "str"
                            /\ HasMember(item, "content"))

C16_ChatRequestShape ==
    (fnPc = "done" /\ fnIn.fn = "convert_responses_to_chat_completions") =>
        LET request == fnIn.arg
            out == fnOut.o
        IN  /\ fnOut.t = "obj"
            /\ DOMAIN out \subseteq
                  {"model", "stream", "max_tokens", "temperature", "messages"}
            /\ "input" \notin DOMAIN out
            /\ "max_completion_tokens" \notin DOMAIN out
            /\ \A k \in {"model", "stream", "temperature"} :
                  IF HasMember(request, k)
                  THEN k \in DOMAIN out /\ out[k] = request.o[k]
                  ELSE k \notin DOMAIN out
            /\ IF HasMember(request, "max_completion_tokens")
               THEN /\ "max_tokens" \in DOMAIN out
                    /\ out.max_tokens = request.o.max_completion_tokens
               ELSE "max_tokens" \notin DOMAIN out
            /\ (HasMember(request, "input") /\ request.o.input.t = "arr") =>
                  /\ "messages" \in DOMAIN out
                  /\ out.messages.t = "arr"
                  /\ Len(out.messages.a) = Len(MessageItems(request))
                  /\ \A i \in DOMAIN MessageItems(request) :
                        out.messages.a[i] =
                            [t |-> "obj",
                             o |-> [role |-> MessageItems(request)[i].o.role,
                                    content |-> MessageItems(request)[i].o.content]]

\* A request with a max_tokens of its own and an input of three items: a
\* message, an item without a role, a message
C16_Witness ==
    /\ fnPc = "done"
    /\ fnIn.fn = "convert_responses_to_chat_completions"
    /\ HasMember(fnIn.arg, "max_tokens")
    /\ Len(InputOf(fnIn.arg)) = 3
    /\ ~HasMember(InputOf(fnIn.arg)[2], "role")
    /\ Len(MessageItems(fnIn.arg)) = 2
    /\ fnOut.o.max_tokens = [t |-> "num", n |-> 64]
    /\ Len(fnOut.o.messages.a) = 2

-----------------------------------------------------------------------------
(* C17: for every Responses request, convert_responses_to_gemini_request   *)
(* gives contents with one entry per input item whose role is not system,  *)
(* in the order of the input, each {role: "model" when the role of the     *)
(* item is assistant, else "user", parts: [{text: the flattened content}]};*)
(* the system items are never in contents, and their texts, joined by a    *)
(* blank line in the order of the input, are systemInstruction.parts[0]    *)
(* .text, which is there if and only if there is a system item.            *)

\* The role of an item; system is told as the code tells it, whatever the
\* case of its letters
RoleOf(item) ==
    IF HasMember(item, "role") /\ item.o.role.t = "str" THEN item.o.role.s
    ELSE <<>>

IsSystemItem(item) == ToLowercase(RoleOf(item)) = <<"system">>

\* The flattened content of an item
Flattened(item) ==
    content_value_to_text(IF HasMember(item, "content") THEN item.o.content
                          ELSE [t |-> "str", s |-> <<>>])[1]

\* The texts, each but the last followed by a blank line
RECURSIVE WithBlankLines(_)
WithBlankLines(texts) ==
    IF Len(texts) = 0 THEN <<>>
    ELSE IF Len(texts) = 1 THEN texts[1]
    ELSE texts[1] \o <<"\n", "\n">> \o WithBlankLines(Tail(texts))

C17_GeminiRequestShape ==
    (fnPc = "done" /\ fnIn.fn = "convert_responses_to_gemini_request") =>
        LET input == InputOf(fnIn.arg)
            others == SelectSeq(input, LAMBDA item : ~IsSystemItem(item))
            systems == SelectSeq(input, IsSystemItem)
            out == fnOut.o
        IN  /\ out.contents.t = "arr"
            /\ Len(out.contents.a) = Len(others)
            /\ \A i \in DOMAIN others :
                  out.contents.a[i] =
                      [t |-> "obj",
                       o |-> [role |-> [t |-> "str",
                                        s |-> IF RoleOf(others[i]) = <<"assistant">>
                                              THEN <<"model">> ELSE <<"user">>],
                              parts |-> [t |-> "arr",
                                         a |-> <<[t |-> "obj",
                                                  o |-> [text |->
                                                     [t |-> "str",
                                                      s |-> Flattened(others[i])]]]>>]]]
            /\ ("systemInstruction" \in DOMAIN out) <=> (systems # <<>>)
            /\ systems # <<>> =>
                  out.systemInstruction.o.parts.a[1].o.text.s =
                      WithBlankLines([i \in DOMAIN systems |->
                                         Flattened(systems[i])])

\* An input of a system item, an assistant item and a second system item
C17_Witness ==
    /\ fnPc = "done"
    /\ fnIn.fn = "convert_responses_to_gemini_request"
    /\ Len(InputOf(fnIn.arg)) = 3
    /\ RoleOf(InputOf(fnIn.arg)[1]) = <<"system">>
    /\ RoleOf(InputOf(fnIn.arg)[2]) = <<"assistant">>
    /\ RoleOf(InputOf(fnIn.arg)[3]) = <<"System">>
    /\ Len(fnOut.o.contents.a) = 1
    /\ fnOut.o.contents.a[1].o.role.s = <<"model">>
    /\ fnOut.o.systemInstruction.o.parts.a[1].o.text.s =
          <<"be", " ", "brief", "\n", "\n", "no", " ", "lists">>

-----------------------------------------------------------------------------
(* C22: after the SSE framer has processed any chunk, every line received  *)
(* so far that ends in a line feed has been emitted (or dropped as empty), *)
(* and the buffer holds only the bytes that follow the last line feed: a   *)
(* complete line is never kept back for a later chunk or for the end of    *)
(* the stream.                                                             *)

\* The bytes the framer has received so far
Received == SubSeq(body, 1, Len(body) - Len(rest))

\* The bytes of a text that follow its last line feed
RECURSIVE AfterLastLF(_)
AfterLastLF(s) ==
    IF s = <<>> \/ s[Len(s)] = "\n" THEN <<>>
    ELSE AfterLastLF(SubSeq(s, 1, Len(s) - 1)) \o <<s[Len(s)]>>

C22_CompleteLinesNeverWithheld ==
    ssePc = "reading" => buffer = AfterLastLF(Received)

-----------------------------------------------------------------------------
(* C21: under any interleaving of requests handled at the same time, the   *)
(* configured route entries are never modified: the rewrite of path and    *)
(* target_url that a converter makes for one request is made on a copy of  *)
(* that request and is never seen by another request on the same route, at *)
(* the same time or later.                                                 *)

\* The URL a request goes to when it started from the configured entry
UrlFromConfigured(route, request) ==
    LET o3 == handle_o3_model_conversion(ConfiguredRoutes[route],
                                         RawBytes(request))
    IN  handle_google_responses_conversion(o3.config, o3.body).config.target_url

C21_RouteEntriesNeverModified ==
    cells # <<>> =>
        /\ \A r \in RouteIds : cells[r] = <<ConfiguredRoutes[r]>>
        /\ \A t \in TaskIds :
              /\ tasks[t].pc # "idle" =>
                    tasks[t].seen = <<ConfiguredRoutes[tasks[t].route]>>
              /\ tasks[t].pc = "sent" =>
                    tasks[t].url = UrlFromConfigured(tasks[t].route,
                                                     tasks[t].request)

\* Both tasks on the OpenAI route: the first, on its second request, was
\* converted and sent to chat/completions, while the second, with a body
\* that is no JSON, went to the configured target
C21_Witness ==
    /\ cells # <<>>
    /\ tasks["task1"].pc = "sent"
    /\ tasks["task1"].served = 1
    /\ tasks["task1"].route = "route1"
    /\ tasks["task1"].o3[1].converted
    /\ tasks["task1"].url # ConfiguredRoutes["route1"].target_url
    /\ tasks["task2"].pc = "sent"
    /\ tasks["task2"].route = "route1"
    /\ tasks["task2"].request = <<"hello">>
    /\ tasks["task2"].url = ConfiguredRoutes["route1"].target_url

-----------------------------------------------------------------------------
(* The request-side converters, as the claims below tell when they fire.   *)

\* The model of a body, when the body is JSON and its model is a string
ModelOf(text) ==
    IF /\ FromStr(text) # <<>>
       /\ HasMember(FromStr(text)[1], "model")
       /\ FromStr(text)[1].o.model.t = "str"
    THEN FromStr(text)[1].o.model.s
    ELSE <<>>

\* The route path has "/v1/responses", the body is JSON, and its model is
\* a string that starts with "o3"
O3FiresOn(route, text) ==
    /\ Contains(route.path, <<"/", "v1", "/", "responses">>)
    /\ FromStr(text) # <<>>
    /\ ModelOf(text) # <<>>
    /\ ModelOf(text)[1] = "o3"

\* The route path is one of the Google provider with "/responses", the
\* body is JSON, and its model is a string that is not empty
GoogleFiresOn(route, text) ==
    /\ Contains(route.path, <<"/", "api", "/", "provider", "/", "google", "/">>)
    /\ Contains(route.path, <<"/", "responses">>)
    /\ FromStr(text) # <<>>
    /\ ModelOf(text) # <<>>

\* The JSON document of the inbound body, when it is one
InboundJson == FromStr(req.body)

O3Fires == O3FiresOn(config, req.body)

GoogleFires == GoogleFiresOn(config, req.body)

\* The stream flag of the inbound body: false when it is missing or no
\* boolean
InboundStreamFlag ==
    /\ InboundJson # <<>>
    /\ HasMember(InboundJson[1], "stream")
    /\ InboundJson[1].o.stream = [t |-> "bool", b |-> TRUE]

\* The steps that ran
StepsRun == {steps[i] : i \in DOMAIN steps}

-----------------------------------------------------------------------------
(* C23: the response-side conversion runs if and only if a request-side    *)
(* converter fired for the same request; it is the reverse direction of    *)
(* that converter; and its streaming or non-streaming branch is chosen     *)
(* from the stream flag of the original inbound body (false when missing), *)
(* never from the converted body or from the upstream response.            *)

\* The bytes the response-side converter read from the transcoded response
ConverterRead ==
    IF ReadsWholeBody(upstream[1], conv[1].final_config) THEN body ELSE acc

C23_ResponseConversionMirrorsRequest ==
    /\ "ConvertResponse" \in StepsRun => (O3Fires \/ GoogleFires)
    /\ "Return" \in StepsRun =>
          ("ConvertResponse" \in StepsRun <=> (O3Fires \/ GoogleFires))
    /\ reqPc = "finished" =>
          IF InboundStreamFlag
          THEN resp[1].body =
                  FullBody(LinesBytes(
                      IF O3Fires THEN ChatLines(Lines(Utf8Lossy(ConverterRead)))
                      ELSE GeminiLines(Lines(Utf8Lossy(ConverterRead)))))
          ELSE IF O3Fires
          THEN /\ resp[1].body.kind = "full"
               /\ resp[1].body.bytes.kind # "lines"
               /\ HeaderGet(resp[1].headers, ContentType) = <<<<"application/json">>>>
          ELSE resp[1].body.kind # "full" \/ resp[1].body.bytes.kind # "lines"

\* A request without a stream flag that the o3 converter converted, an
\* upstream answer that says text/event-stream: the answer is converted
\* as a whole JSON document
C23_Witness ==
    /\ reqPc = "finished"
    /\ O3Fires
    /\ ~InboundStreamFlag
    /\ IsStreamingContentType(upstream[1].headers)
    /\ "ConvertResponse" \in StepsRun
    /\ HeaderGet(resp[1].headers, ContentType) = <<<<"application/json">>>>

-----------------------------------------------------------------------------
(* C24: handle_o3_model_conversion reports a conversion if and only if the *)
(* route path has "/v1/responses", the body parses as JSON and its model   *)
(* is a string that starts with "o3".  When it converts, it changes only   *)
(* the body, the path and the target_url (the responses segment becomes    *)
(* chat/completions) and leaves method, response type, header lists,       *)
(* timeout and retry as they are; when it does not convert, it returns     *)
(* the route and the body as they are.                                     *)

C24_O3ConversionFrame ==
    (fnPc = "done" /\ fnIn.fn = "handle_o3_model_conversion") =>
        LET route == fnIn.arg.config
            fires == O3FiresOn(route, fnIn.arg.body)
        IN  /\ fnOut.converted <=> fires
            /\ fires =>
                  /\ \A field \in DOMAIN route \ {"path", "target_url"} :
                        fnOut.config[field] = route[field]
                  /\ DOMAIN fnOut.config = DOMAIN route
                  /\ fnOut.config.path =
                        Replace(route.path, <<"/", "v1", "/", "responses">>,
                                <<"/", "v1", "/", "chat", "/", "completions">>)
                  /\ fnOut.config.target_url =
                        Replace(route.target_url, <<"/", "v1", "/", "responses">>,
                                <<"/", "v1", "/", "chat", "/", "completions">>)
                  /\ fnOut.config.path # route.path
            /\ ~fires =>
                  /\ fnOut.config = route
                  /\ fnOut.body = [kind |-> "raw", text |-> fnIn.arg.body]

\* The o3 request on the OpenAI responses route: converted, with the path
\* and the target of chat/completions
C24_Witness ==
    /\ fnPc = "done"
    /\ fnIn.fn = "handle_o3_model_conversion"
    /\ fnIn.arg.config = ProxyConfigDefault.endpoints[2]
    /\ fnIn.arg.body = <<"{o3-stream}">>
    /\ fnOut.converted
    /\ Contains(fnOut.config.target_url,
                <<"/", "v1", "/", "chat", "/", "completions">>)
    /\ fnOut.config.response_type = ProxyConfigDefault.endpoints[2].response_type

-----------------------------------------------------------------------------
(* C25: when neither converter fires for a request (the path does not      *)
(* match, the body is no JSON, the model does not start with o3, or the    *)
(* model of a Gemini request is missing or empty), the outbound request    *)
(* goes to the configured target_url of the route with a body that is,     *)
(* byte for byte, the inbound body, and no response-side conversion is     *)
(* applied to the result.                                                  *)

C25_NoConverterPassesThrough ==
    (reqPc # "idle" /\ ~O3Fires /\ ~GoogleFires) =>
        /\ \A i \in DOMAIN outbound :
              /\ outbound[i].url = config.target_url
              /\ outbound[i].body = [kind |-> "raw", text |-> req.body]
        /\ "ConvertResponse" \notin StepsRun

\* A request without a model on the responses route of the Google
\* provider: sent on as it is, and answered
C25_Witness ==
    /\ reqPc = "done"
    /\ ~O3Fires
    /\ ~GoogleFires
    /\ Contains(config.path, <<"/", "responses">>)
    /\ Contains(config.path, <<"google">>)
    /\ req.body = <<"{no-model}">>
    /\ Len(outbound) = 1
    /\ outbound[1].url = config.target_url
    /\ outbound[1].body.text = req.body
    /\ "Return" \in StepsRun

-----------------------------------------------------------------------------
(* C26: when the Gemini converter fires, the outbound target URL is        *)
(* {base}/{model}:streamGenerateContent when the stream member of the      *)
(* request is the boolean true, and {base}/{model}:generateContent         *)
(* otherwise, where base is the configured target_url without the slashes  *)
(* at its end and model is the model of the request; the upstream          *)
(* operation and the streaming branch of the response-side conversion      *)
(* always agree.                                                           *)

\* A text without the slashes at its end
WithoutEndSlashes(s) ==
    LET kept == {k \in 0..Len(s) : \A j \in (k + 1)..Len(s) : s[j] = "/"}
        k == CHOOSE x \in kept : \A y \in kept : x <= y
    IN  SubSeq(s, 1, k)

\* Whether the response-side conversion took its streaming branch: the
\* response holds the lines it joined
TookStreamingBranch ==
    resp[1].body.kind = "full" /\ resp[1].body.bytes.kind = "lines"

C26_GeminiOperationFollowsStreamFlag ==
    (reqPc # "idle" /\ GoogleFires /\ ~O3Fires) =>
        /\ \A i \in DOMAIN outbound :
              outbound[i].url =
                  WithoutEndSlashes(config.target_url) \o <<"/">>
                  \o ModelOf(req.body)
                  \o <<":", IF InboundStreamFlag THEN "streamGenerateContent"
                            ELSE "generateContent">>
        /\ reqPc = "finished" =>
              /\ Len(outbound) = 1
              /\ TookStreamingBranch <=>
                    outbound[1].url[Len(outbound[1].url)] = "streamGenerateContent"

\* A streaming request on the responses route of the Google provider,
\* whose target ends in a slash
C26_Witness ==
    /\ reqPc = "finished"
    /\ GoogleFires
    /\ req.body = <<"{gemini-stream}">>
    /\ config.target_url[Len(config.target_url)] = "/"
    /\ outbound[1].url = <<"https", "://", "api-key.info", "/", "v1beta", "/",
                           "models", "/", "gemini-pro", ":",
                           "streamGenerateContent">>
    /\ TookStreamingBranch

-----------------------------------------------------------------------------
(* C27: when the o3 converter fired and the original request did not say   *)
(* stream: true, the caller receives the upstream Chat Completions         *)
(* response unchanged: the same status code, the same forwarded response   *)
(* headers, and a JSON body equal to the one of the upstream.              *)

\* The response has the status of the upstream
SameStatus == resp[1].status = upstream[1].status

\* Every header the route forwards and the upstream sent is in the
\* response, with the value of the upstream
SameForwardedHeaders ==
    \A i \in DOMAIN config.forward_response_headers :
        LET name == config.forward_response_headers[i]
        IN  (/\ HeaderGet(upstream[1].headers, name) # <<>>
             /\ ToLowercase(name) \notin {<<"connection">>, <<"transfer-encoding">>})
            => HeaderGet(resp[1].headers, name) = HeaderGet(upstream[1].headers, name)

\* The body is the JSON document of the upstream body
SameJsonBody ==
    /\ resp[1].body.kind = "full"
    /\ FromSlice(resp[1].body.bytes) = FromStr(body)
    /\ FromStr(body) # <<>>

C27_NonStreamingO3ResponseUnchanged ==
    (reqPc = "finished" /\ O3Fires /\ ~InboundStreamFlag) =>
        /\ SameStatus
        /\ SameForwardedHeaders
        /\ SameJsonBody

-----------------------------------------------------------------------------
(* C28: every response returned to the caller on a route of response type  *)
(* Stream, whatever the letter case of the names in forward_response_      *)
(* headers and whether or not a converter fired, has no connection header  *)
(* and no transfer-encoding header.                                        *)

\* The response that was returned to the caller has a header of the name
Returned(name) ==
    /\ result # None
    /\ result[1].ok
    /\ \E i \in DOMAIN result[1].response.headers :
          result[1].response.headers[i][1] = name

C28_StreamResponseHasNoHopHeaders ==
    (config # None /\ config.response_type = "Stream") =>
        /\ ~Returned(<<"connection">>)
        /\ ~Returned(<<"transfer-encoding">>)

-----------------------------------------------------------------------------
(* C29: on a Stream route with no conversion the bytes delivered to the    *)
(* caller are the upstream body bytes in upstream order.  When the         *)
(* content-type of the upstream has text/event-stream or                   *)
(* application/stream, each chunk is relayed as it arrives: what was       *)
(* delivered is at every moment the upstream bytes that arrived.           *)
(* Otherwise the body is read once in full and sent as one body.  The      *)
(* content-type alone chooses the branch, and a response without           *)
(* content-type takes the buffered one.                                    *)

\* The values of the content-type headers of the upstream response
UpstreamContentTypes ==
    {upstream[1].headers[i][2] :
        i \in {j \in DOMAIN upstream[1].headers :
                  upstream[1].headers[j][1] = <<"content-type">>}}

\* The upstream response names a stream in its content-type
UpstreamNamesStream ==
    \E ct \in UpstreamContentTypes :
        \E i \in DOMAIN ct : ct[i] \in {"text/event-stream", "application/stream"}

\* A response was returned on a Stream route for which no converter fired
StreamRouteAnswered ==
    /\ config # None
    /\ config.response_type = "Stream"
    /\ ~O3Fires
    /\ ~GoogleFires
    /\ result # None
    /\ result[1].ok

C29_StreamRouteRelaysUpstreamBytes ==
    StreamRouteAnswered =>
        /\ delivered.kind = "raw"
        /\ delivered.text \o rest = body
        /\ (reqPc = "done" /\ ~sseErr) => delivered.text = body
        /\ IF UpstreamNamesStream
           THEN result[1].response.body.kind = "stream"
           ELSE /\ result[1].response.body = [kind |-> "full",
                                              bytes |-> RawBytes(body)]
                /\ delivered.text = body
                /\ reqPc = "done"

\* An upstream of content-type application/stream+json was relayed in two
\* chunks, of which the first was delivered before the second arrived
C29_Witness ==
    /\ StreamRouteAnswered
    /\ UpstreamContentTypes = {<<"application/stream", "+json">>}
    /\ reqPc = "returned"
    /\ delivered.text # <<>>
    /\ rest # <<>>
    /\ delivered.text \o rest = body

-----------------------------------------------------------------------------
(* C30: for every route that validation accepts, with its method written   *)
(* in any letter case, the outbound request has the HTTP method under      *)
(* which the route is mounted for inbound requests: a route configured     *)
(* with "post" is served for POST and sent upstream as POST.               *)

\* The methods under which the router serves the route of the request
MountedMethods ==
    {m \in HttpMethods : Serves(RegisterRoutes(<<config>>, {}), config.path, m)}

C30_OutboundMethodIsMountedMethod ==
    (config # None /\ EndpointConfig_validate(config).ok) =>
        \A i \in DOMAIN outbound :
            \E m \in MountedMethods : outbound[i].method = <<m>>

-----------------------------------------------------------------------------
(* C31: when the outbound call fails because the timeout resolved for the  *)
(* route elapsed, the caller receives status 504; when it fails for any    *)
(* other reason at network level, the caller receives status 502.          *)

\* The timeout of the route has elapsed on the outbound call
TimeoutElapsed == reqPc = "awaiting"

\* The caller was answered with an error of this status
Refused(status) == result # None /\ ~result[1].ok /\ result[1].status = status

\* The outbound call failed at network level: it was made, and no response
\* came back
NetworkFailure ==
    /\ failedAt = "Forward"
    /\ outbound # <<>>
    /\ upstream = None

C31_TimeoutIs504NetworkIs502 ==
    /\ TimeoutElapsed => Refused(504)
    /\ NetworkFailure => Refused(502)

-----------------------------------------------------------------------------
(* C32: every inbound request causes at most one outbound request to the   *)
(* upstream, whether the outbound call succeeds, fails at network level or *)
(* returns a status that is no success: the retry policy resolved for the  *)
(* route is never applied to the forwarding call.                          *)

\* The retry policy resolved for the route of the request
ResolvedRetry == get_retry_config(config, ProxyConfigDefault.global_retry)

C32_AtMostOneOutboundRequest ==
    config # None => Len(outbound) <= 1

\* The only outbound request failed at network level on a route whose
\* policy allows three attempts, and the caller was answered
C32_Witness ==
    /\ config # None
    /\ ResolvedRetry.max_attempts = 3
    /\ NetworkFailure
    /\ reqPc = "done"
    /\ Refused(502)
    /\ Len(outbound) = 1

-----------------------------------------------------------------------------
(* C33: retry_with_backoff calls the operation again after a failed        *)
(* attempt only when the error is retriable by the classification (network *)
(* error, timeout, upstream 5xx or 429) and attempts remain; for every     *)
(* other error it returns the error after that attempt without retrying,   *)
(* in agreement with is_retriable_error.                                   *)

\* The classification: network errors and timeouts, upstream 5xx and 429
ClassifiedRetriable(error) ==
    \/ error.e \in {"NetworkError", "TimeoutError"}
    \/ /\ error.e = "UpstreamError"
       /\ error.status \in (500..599) \cup {429}

\* The attempt i is followed by a retry: a sleep, or another call
Retried(i) == Len(history) > i \/ (Len(history) = i /\ rbPc = "sleeping")

C33_RetriesOnlyRetriableErrors ==
    \A i \in DOMAIN history :
        ~history[i].ok =>
            /\ is_retriable_error(history[i].error)
                   <=> ClassifiedRetriable(history[i].error)
            /\ Retried(i) =>
                   /\ ClassifiedRetriable(history[i].error)
                   /\ i < rbConfig.max_attempts
            /\ ~ClassifiedRetriable(history[i].error) =>
                   /\ Len(history) = i
                   /\ rbPc = "returned"
                   /\ rbResult = Some(history[i])

-----------------------------------------------------------------------------
(* C34: for every validated retry policy and every sequence of outcomes of *)
(* the operation, retry_with_backoff terminates with at most max_attempts  *)
(* calls of the operation; it returns the first success, and otherwise the *)
(* error of the last attempt made; the delays it sleeps start at           *)
(* base_delay, never decrease and never exceed max_delay; it never sleeps  *)
(* after the final attempt.                                                *)

\* The policy of the call is one that RetrySettings::validate accepts
ValidatedPolicy ==
    \E settings \in RbSettings :
        /\ RetrySettings_validate(settings).ok
        /\ rbConfig = RetryConfigFrom(settings)

\* The calls are bounded, and the function does not end without a result
BoundedAttempts ==
    /\ Len(history) <= rbConfig.max_attempts
    /\ rbPc \in {"loop", "sleeping", "returned"}
    /\ rbPc = "loop" => attempt = Len(history) + 1 /\ attempt <= rbConfig.max_attempts

\* No call follows a success, and what is returned is the last outcome
ReturnsFirstSuccessOrLastError ==
    /\ \A i \in 1..(Len(history) - 1) : ~history[i].ok
    /\ rbPc = "returned" =>
          /\ history # <<>>
          /\ rbResult = Some(history[Len(history)])
    /\ (history # <<>> /\ history[Len(history)].ok) => rbPc = "returned"

\* The delays slept
DelaysWithinPolicy ==
    /\ slept # <<>> => slept[1] = rbConfig.base_delay
    /\ \A i \in 1..(Len(slept) - 1) : slept[i] <= slept[i + 1]
    /\ \A i \in DOMAIN slept : slept[i] <= rbConfig.max_delay
    /\ rbPc = "sleeping" => delay >= rbConfig.base_delay /\ delay <= rbConfig.max_delay

\* A sleep is followed by an attempt
NoSleepAfterFinalAttempt ==
    /\ rbPc = "sleeping" => Len(history) < rbConfig.max_attempts
    /\ Len(slept) < rbConfig.max_attempts
    /\ rbPc = "returned" => Len(slept) = Len(history) - 1

C34_BoundedAttemptsAndDelays ==
    (rbPc # "idle" /\ ValidatedPolicy) =>
        /\ BoundedAttempts
        /\ ReturnsFirstSuccessOrLastError
        /\ DelaysWithinPolicy
        /\ NoSleepAfterFinalAttempt

-----------------------------------------------------------------------------
(* C40: retry_with_backoff returns a result for every RetryConfig value,   *)
(* also one built directly with max_attempts = 0: the unreachable!() after *)
(* its loop is never executed.                                             *)

\* retry_with_backoff ended in the panic of unreachable!()
Panicked == rbPc = "panicked"

C40_UnreachableIsNeverExecuted ==
    /\ ~Panicked
    /\ (rbPc = "loop" /\ history = <<>>) => attempt <= rbConfig.max_attempts

-----------------------------------------------------------------------------
(* C35: get_retry_config returns the retry settings of the endpoint when   *)
(* it has some, otherwise the global retry settings when there are some,   *)
(* otherwise the built-in default (3 attempts, 100 ms base delay, 10 s     *)
(* maximum delay, multiplier 2); get_timeout likewise returns the timeout  *)
(* of the endpoint, else the global timeout, else 30 seconds.              *)

\* Retry settings as a policy with its delays in milliseconds
AsPolicy(settings) ==
    [max_attempts |-> settings.max_attempts,
     base_delay |-> settings.base_delay_ms,
     max_delay |-> settings.max_delay_ms,
     backoff_multiplier |-> settings.backoff_multiplier]

\* The first of the three that is there
FirstPresent(own, global, builtin) ==
    IF own # <<>> THEN own[1] ELSE IF global # <<>> THEN global[1] ELSE builtin

C35_ResolutionOrder ==
    /\ (fnPc = "done" /\ fnIn.fn = "get_retry_config") =>
          fnOut = FirstPresent(
                    IF fnIn.arg.self.retry = <<>> THEN <<>>
                    ELSE <<AsPolicy(fnIn.arg.self.retry[1])>>,
                    IF fnIn.arg.global_retry = <<>> THEN <<>>
                    ELSE <<AsPolicy(fnIn.arg.global_retry[1])>>,
                    [max_attempts |-> 3, base_delay |-> 100,
                     max_delay |-> 10 * 1000, backoff_multiplier |-> F64(20)])
    /\ (fnPc = "done" /\ fnIn.fn = "get_timeout") =>
          fnOut = 1000 * FirstPresent(fnIn.arg.self.timeout,
                                      fnIn.arg.global_timeout, 30)

\* An endpoint with a timeout of 5 seconds under a global timeout of 60
C35_Witness ==
    /\ fnPc = "done"
    /\ fnIn.fn = "get_timeout"
    /\ fnIn.arg.self.timeout = <<5>>
    /\ fnIn.arg.global_timeout = <<60>>
    /\ fnOut = 5000

-----------------------------------------------------------------------------
(* C36: every payload the SSE framer emits is a string that is not empty:  *)
(* no upstream line, a bare `data:` line and a `data: ` line with nothing  *)
(* after the prefix included, becomes a client event with empty data.      *)

C36_NoEmptyPayload ==
    (fnPc = "done" /\ fnIn.fn = "parse_sse_line" /\ fnOut # <<>>) =>
        fnOut[1] # <<>>

-----------------------------------------------------------------------------
(* C37: for every route path and request body at most one of the two       *)
(* request-side converters reports a conversion for the same request: the  *)
(* o3 converter and the Gemini converter never both rewrite one request,   *)
(* so the response-side conversion that runs is the reverse of the only    *)
(* rewrite that was applied.                                               *)

C37_AtMostOneConverterFires ==
    /\ conv # <<>> =>
          ~(conv[1].is_o3_conversion /\ conv[1].is_google_conversion)
    /\ (fnPc = "done" /\ fnIn.fn = "request_conversions") =>
          ~(fnOut.is_o3_conversion /\ fnOut.is_google_conversion)

-----------------------------------------------------------------------------
(* C38: for every request that was forwarded with success and for which no *)
(* converter fired, the status returned to the caller is the status of the *)
(* upstream, in all four response modes (Json, Html, Stream and Sse).      *)

\* The caller was answered with a response, and no converter had fired
AnsweredWithoutConversion ==
    /\ config # None
    /\ ~O3Fires
    /\ ~GoogleFires
    /\ result # None
    /\ result[1].ok

C38_StatusIsUpstreamStatus ==
    AnsweredWithoutConversion =>
        result[1].response.status = upstream[1].status

-----------------------------------------------------------------------------
(* C39: the SSE event stream always ends.  Once the upstream byte stream   *)
(* finishes or yields a read error, the framer never reads from the        *)
(* upstream again, emits at most the events for the lines left in its      *)
(* buffer, and then closes the client stream; it emits no event after      *)
(* that.                                                                   *)

\* How many lines a text has: its line feeds, and what follows the last one
LineCount(text) ==
    Cardinality({i \in DOMAIN text : text[i] = "\n"})
    + (IF text # <<>> /\ text[Len(text)] # "\n" THEN 1 ELSE 0)

\* A step of the open stream closes it or takes bytes from what the
\* upstream has left, so that the stream ends after finitely many steps
ClosesOrConsumes ==
    ssePc = "reading" => (ssePc' = "closed" \/ Len(rest') < Len(rest))

\* The step at which the stream closes follows the end of the upstream or
\* a read error: nothing is read, and the events that are added are no more
\* than the lines of the buffer
ClosesAfterFlush ==
    (ssePc = "reading" /\ ssePc' = "closed") =>
        /\ rest = <<>> \/ sseErr'
        /\ rest' = rest
        /\ Len(events') <= Len(events) + LineCount(Utf8Lossy(buffer))
        /\ SubSeq(events', 1, Len(events)) = events

\* Once closed, the stream stays closed: nothing is read and no event is
\* added
NothingAfterClose ==
    ssePc = "closed" =>
        /\ ssePc' = "closed"
        /\ rest' = rest
        /\ events' = events

C39_SseStreamEnds ==
    [][ClosesOrConsumes /\ ClosesAfterFlush /\ NothingAfterClose]_vars

\* The upstream broke off in the middle of its body while a line was left
\* in the buffer; the line was emitted and the stream closed
C39_Witness ==
    /\ ssePc = "closed"
    /\ sseErr
    /\ rest # <<>>
    /\ buffer # <<>>
    /\ events # <<>>

====
